---- MODULE Spec2Model ----
(***************************************************************************)
(* A model of the assertion library github.com/golib/assert (asserts.go).  *)
(*                                                                         *)
(* The library has no long-lived state of its own: every assertion is a    *)
(* function of its arguments that reports to a caller-supplied reporting   *)
(* sink (the Testing interface).  The state of the model is therefore the  *)
(* sink, the arguments of the assertion under test and the outcome of the  *)
(* last assertion called.  Go values are modelled as tagged records that   *)
(* carry their runtime type, and reflect.DeepEqual / reflect.Value.Convert *)
(* are modelled by what they compute on those records.                     *)
(***************************************************************************)
EXTENDS Integers, Sequences, FiniteSets, TLC

\* t         the reporting sink: whether it implements FailNow(), and the
\*           calls it has received
\* expected, actual   the values under test (Contains takes actual as the
\*           list and expected as the element)
\* op        the assertion called last, "none" before the first call
\* ret       its outcome: "true", "false", or "panic" when it panicked
\* calls     the methods of the sink it invoked, in order
\* keyPath   the key path given to the assertions on JSON documents
\* delta     the tolerance given to InDelta
\* invoked   the number of times the last assertion called the function
\*           it was given
\* out       the string that the last call of diffValues returned
\* loop      the local variables of getJsonValue while its loop runs
\* routines  the goroutines that run diffValues at the same time, each with
\*           its position and its local variables
VARIABLES t, expected, actual, op, ret, calls, keyPath, delta, invoked, out, routines, loop

vars == <<t, expected, actual, op, ret, calls, keyPath, delta, invoked, out, routines, loop>>

(***************************************************************************)
(* Bounds of the model.                                                    *)
(***************************************************************************)
\* the sink accepts at most MaxLog calls before the test function ends
MaxLog == 3
\* longest slice of the generated containers
MaxLen == 2

(***************************************************************************)
(* Go values.  Every value is a record of one shape:                       *)
(*   k    kind ("nil" is the invalid reflect.Value / the nil interface)    *)
(*   t    runtime type descriptor                                          *)
(*   n    integer payload: the integer; a float in halves (3 is 1.5); a    *)
(*        bool as 0/1; the address of a pointer, or the identity of a      *)
(*        slice's backing array, map, chan or func, with 0 for nil         *)
(*   nan  the number is NaN                                                *)
(*   str  a string, as its sequence of code points                         *)
(*   es   the children: the pointee of a pointer, the elements of a slice, *)
(*        array or chan buffer, the fields of a struct in declaration      *)
(*        order, the entries of a map (each an "entry" of key and value)   *)
(***************************************************************************)
Mk(k, ty, n, nan, str, es) ==
  [k |-> k, t |-> ty, n |-> n, nan |-> nan, str |-> str, es |-> es]

NilV == Mk("nil", "nil", 0, FALSE, <<>>, <<>>)
BoolV(b) == Mk("bool", "bool", IF b THEN 1 ELSE 0, FALSE, <<>>, <<>>)
IntV(ty, n) == Mk("int", ty, n, FALSE, <<>>, <<>>)
FloatV(halves) == Mk("float", "float64", halves, FALSE, <<>>, <<>>)
NaNV == Mk("float", "float64", 0, TRUE, <<>>, <<>>)
\* a complex128 with a NaN part
ComplexNaNV == Mk("complex", "complex128", 0, TRUE, <<>>, <<>>)
StringV(str) == Mk("string", "string", 0, FALSE, str, <<>>)
PtrV(ty, addr, pointee) == Mk("ptr", ty, addr, FALSE, <<>>, <<pointee>>)
NilPtrV(ty) == Mk("ptr", ty, 0, FALSE, <<>>, <<>>)
SliceV(ty, id, es) == Mk("slice", ty, id, FALSE, <<>>, es)
ArrayV(ty, es) == Mk("array", ty, 0, FALSE, <<>>, es)
EntryV(key, val) == Mk("entry", "entry", 0, FALSE, <<>>, <<key, val>>)
MapV(ty, id, es) == Mk("map", ty, id, FALSE, <<>>, es)
StructV(ty, es) == Mk("struct", ty, 0, FALSE, <<>>, es)
FuncV(id) == Mk("func", "func()", id, FALSE, <<>>, <<>>)
ChanV(id, es) == Mk("chan", "chan int64", id, FALSE, <<>>, es)

\* v == nil for an interface value
IsNilInterface(v) == v.k = "nil"

\* reflect.Value.IsNil for the kinds that have it
IsNil(v) == v.n = 0

\* reflect.Value.Elem of a pointer: the zero Value for a nil pointer
Elem(v) == IF v.n = 0 THEN NilV ELSE v.es[1]

(***************************************************************************)
(* reflect.DeepEqual.                                                      *)
(***************************************************************************)
RECURSIVE deepValueEqual(_, _)
deepValueEqual(v1, v2) ==
  IF v1.k = "nil" \/ v2.k = "nil" THEN v1.k = v2.k
  ELSE IF v1.t # v2.t THEN FALSE
  ELSE CASE v1.k \in {"array", "struct", "entry"} ->
              \A i \in 1..Len(v1.es) : deepValueEqual(v1.es[i], v2.es[i])
         [] v1.k = "slice" ->
              /\ IsNil(v1) = IsNil(v2)
              /\ Len(v1.es) = Len(v2.es)
              /\ \/ v1.n = v2.n
                 \/ \A i \in 1..Len(v1.es) : deepValueEqual(v1.es[i], v2.es[i])
         [] v1.k = "ptr" ->
              \/ v1.n = v2.n
              \/ deepValueEqual(Elem(v1), Elem(v2))
         [] v1.k = "map" ->
              /\ IsNil(v1) = IsNil(v2)
              /\ Len(v1.es) = Len(v2.es)
              /\ \/ v1.n = v2.n
                 \/ \A i \in 1..Len(v1.es) :
                      \E j \in 1..Len(v2.es) :
                        \* MapIndex finds the key with Go's ==, then the
                        \* values are compared deeply
                        /\ ~v1.es[i].es[1].nan
                        /\ v1.es[i].es[1] = v2.es[j].es[1]
                        /\ deepValueEqual(v1.es[i].es[2], v2.es[j].es[2])
         [] v1.k = "func" -> IsNil(v1) /\ IsNil(v2)
         [] v1.k \in {"float", "complex"} -> ~v1.nan /\ ~v2.nan /\ v1.n = v2.n
         [] v1.k = "string" -> v1.str = v2.str
         [] OTHER -> v1.n = v2.n

\* a faulty variant: two pointers are equal only when they hold the same address
DeepEqualByAddress(x, y) ==
  IF IsNilInterface(x) \/ IsNilInterface(y)
  THEN IsNilInterface(x) /\ IsNilInterface(y)
  ELSE IF x.k = "ptr" /\ y.k = "ptr" THEN x.t = y.t /\ x.n = y.n
  ELSE deepValueEqual(x, y)

DeepEqual(x, y) ==
  IF IsNilInterface(x) \/ IsNilInterface(y)
  THEN IsNilInterface(x) /\ IsNilInterface(y)
  ELSE deepValueEqual(x, y)

\* a faulty variant: two nil values are not equal
AreEqualObjectsNilUnequal(e, a) ==
  IF IsNilInterface(e) \/ IsNilInterface(a) THEN FALSE ELSE DeepEqual(e, a)

\* a faulty variant: a nil expected value equals everything
AreEqualObjectsNilExpected(e, a) ==
  IF IsNilInterface(e) THEN TRUE
  ELSE IF IsNilInterface(a) THEN FALSE
  ELSE DeepEqual(e, a)

AreEqualObjects(e, a) ==
  IF IsNilInterface(e) /\ IsNilInterface(a) THEN TRUE
  ELSE IF IsNilInterface(e) \/ IsNilInterface(a)
       THEN IsNilInterface(e) /\ IsNilInterface(a)
       ELSE DeepEqual(e, a)

(***************************************************************************)
(* reflect.Type.ConvertibleTo and reflect.Value.Convert on the types of    *)
(* the model.                                                              *)
(***************************************************************************)
IntTypes == {"int8", "int64"}
IsNumericType(ty) == ty \in IntTypes \/ ty = "float64"

\* two's complement wrap-around of n to the width of the integer type; the
\* payloads of the model stay far inside the range of int64
WrapInt(ty, n) ==
  IF ty = "int8" THEN ((n + 128) % 256) - 128 ELSE n

InRange(ty, n) == WrapInt(ty, n) = n

\* truncation towards zero of a float given in halves
Trunc(halves) == IF halves >= 0 THEN halves \div 2 ELSE -((-halves) \div 2)

\* string(rune(n)): the code point, or U+FFFD when n is no valid code point
RuneToString(n) ==
  IF (0 <= n /\ n < 55296) \/ (57343 < n /\ n <= 1114111) THEN <<n>> ELSE <<65533>>

ConvertibleTo(from, to) ==
  \/ from = to
  \/ IsNumericType(from) /\ IsNumericType(to)
  \/ from \in IntTypes /\ to = "string"
  \/ from = "[]float64" /\ to = "[1]float64"

\* The integers that a float the target cannot represent (NaN, or a value out
\* of range) may convert to.  The language leaves the result to the
\* implementation: arm64 yields 0, amd64 yields the most negative int64, whose
\* low byte is 0.  -(2^30) stands for the most negative int64: all that counts
\* is that it differs from every other integer of the model.
ImplementationInts(ty) == IF ty = "int8" THEN {0} ELSE {0, -(2^30)}

\* The possible outcomes of v.Convert(to), for ConvertibleTo(v.t, to): a set
\* of [panic, v].
Convert(v, to) ==
  IF v.t = to THEN {[panic |-> FALSE, v |-> v]}
  ELSE IF v.k = "int" /\ to \in IntTypes
    THEN {[panic |-> FALSE, v |-> IntV(to, WrapInt(to, v.n))]}
  ELSE IF v.k = "int" /\ to = "float64"
    THEN {[panic |-> FALSE, v |-> FloatV(2 * v.n)]}
  ELSE IF v.k = "int" /\ to = "string"
    THEN {[panic |-> FALSE, v |-> StringV(RuneToString(v.n))]}
  ELSE IF v.k = "float" /\ to \in IntTypes
    THEN IF ~v.nan /\ InRange(to, Trunc(v.n))
         THEN {[panic |-> FALSE, v |-> IntV(to, Trunc(v.n))]}
         ELSE {[panic |-> FALSE, v |-> IntV(to, n)] : n \in ImplementationInts(to)}
  ELSE IF v.k = "slice" /\ to = "[1]float64"
    THEN IF Len(v.es) < 1
         THEN {[panic |-> TRUE, v |-> NilV]}
         ELSE {[panic |-> FALSE, v |-> ArrayV(to, <<v.es[1]>>)]}
  ELSE {[panic |-> TRUE, v |-> NilV]}

\* for v.Kind() == reflect.Ptr { v = v.Elem() }
RECURSIVE Indirect(_)
Indirect(v) == IF v.k = "ptr" THEN Indirect(Elem(v)) ELSE v

\* a reflect.Value passed where an interface{} is expected: a struct of type
\* reflect.Value that wraps v
ReflectValue(v) == Mk("struct", "reflect.Value", 0, FALSE, <<>>, <<v>>)

Bool(b) == IF b THEN "true" ELSE "false"

\* The possible outcomes of AreEqualValues(expected, actual): "true",
\* "false" or "panic".
AreEqualValues(e, a) ==
  IF AreEqualObjects(e, a) THEN {"true"}
  ELSE IF IsNilInterface(a) \/ IsNilInterface(e) THEN {"false"}
  ELSE LET actualValue == Indirect(a)
           expectedValue == Indirect(e)
       IN  IF expectedValue.k = "nil" \/ actualValue.k = "nil"
           THEN {"panic"}  \* Type() of the zero Value
           ELSE IF ConvertibleTo(expectedValue.t, actualValue.t)
           THEN {IF c.panic THEN "panic" ELSE Bool(DeepEqual(c.v, a)) :
                   c \in Convert(expectedValue, actualValue.t)}
           ELSE IF ConvertibleTo(actualValue.t, expectedValue.t)
           THEN {IF c.panic THEN "panic"
                 ELSE Bool(DeepEqual(c.v, ReflectValue(actualValue))) :
                   c \in Convert(actualValue, expectedValue.t)}
           ELSE {"false"}

(***************************************************************************)
(* containsElement and the reflection it uses.                             *)
(***************************************************************************)
\* reflect.Type.String of the types of the model, as code points
TypeString(ty) ==
  CASE ty = "int8" -> <<105, 110, 116, 56>>
    [] ty = "int64" -> <<105, 110, 116, 54, 52>>
    [] ty = "float64" -> <<102, 108, 111, 97, 116, 54, 52>>
    [] ty = "complex128" -> <<99, 111, 109, 112, 108, 101, 120, 49, 50, 56>>
    [] ty = "bool" -> <<98, 111, 111, 108>>
    [] ty = "[]int64" -> <<91, 93, 105, 110, 116, 54, 52>>
    [] ty = "[]float64" -> <<91, 93, 102, 108, 111, 97, 116, 54, 52>>
    [] ty = "[1]float64" -> <<91, 49, 93, 102, 108, 111, 97, 116, 54, 52>>
    [] ty = "map[string]int64" ->
         <<109, 97, 112, 91, 115, 116, 114, 105, 110, 103, 93, 105, 110, 116, 54, 52>>
    [] ty = "main.T" -> <<109, 97, 105, 110, 46, 84>>
    [] ty = "main.U" -> <<109, 97, 105, 110, 46, 85>>
    [] ty = "func()" -> <<102, 117, 110, 99, 40, 41>>
    [] ty = "chan int64" -> <<99, 104, 97, 110, 32, 105, 110, 116, 54, 52>>
    [] ty = "nil" -> <<105, 110, 118, 97, 108, 105, 100>>
    [] OTHER -> <<63>>

\* reflect.Value.String: the string itself, "<T Value>" for another kind and
\* "<invalid Value>" for the zero Value
ValueString(v) ==
  IF v.k = "string" THEN v.str
  ELSE <<60>> \o TypeString(v.t) \o <<32, 86, 97, 108, 117, 101, 62>>

\* strings.Contains
StringsContains(str, substr) ==
  \E i \in 0..(Len(str) - Len(substr)) : SubSeq(str, i + 1, i + Len(substr)) = substr

\* The fields of the struct types of the model, as reflect.StructField
\* describes them; Tag is the value of the tag's json key.
\*   type T struct {
\*     A string `json:"a"`
\*     B int64
\*     c string `json:"x"`
\*     D int64  `json:"d,omitempty"`
\*   }
\*   type U struct { F float64 }
StructFields(ty) ==
  IF ty = "main.T" THEN
    << [Name |-> <<65>>, Exported |-> TRUE, Tag |-> <<97>>],
       [Name |-> <<66>>, Exported |-> TRUE, Tag |-> <<>>],
       [Name |-> <<99>>, Exported |-> FALSE, Tag |-> <<120>>],
       [Name |-> <<68>>, Exported |-> TRUE,
        Tag |-> <<100, 44, 111, 109, 105, 116, 101, 109, 112, 116, 121>>] >>
  ELSE << [Name |-> <<70>>, Exported |-> TRUE, Tag |-> <<>>] >>

\* a faulty variant: an unexported field is matched like an exported one
FieldMatchesUnexported(field, expect) ==
  IF field.Tag # <<>>
  THEN AreEqualObjects(StringV(field.Tag), expect)
  ELSE AreEqualObjects(StringV(field.Name), expect)

\* one iteration of the loop over the fields of a struct
FieldMatches(field, expect) ==
  /\ field.Exported
  /\ IF field.Tag # <<>>
     THEN AreEqualObjects(StringV(field.Tag), expect)
     ELSE AreEqualObjects(StringV(field.Name), expect)

\* a faulty variant: the last element of the list is never looked at
containsElementOffByOne(act, expect) ==
  LET actualValue == Indirect(act)
  IN  IF actualValue.k \in {"slice", "array"}
      THEN [ok |-> TRUE,
            found |-> \E i \in 1..(Len(actualValue.es) - 1) :
                         AreEqualObjects(actualValue.es[i], expect)]
      ELSE [ok |-> FALSE, found |-> FALSE]

\* a faulty variant: a panic of Len is not recovered into "not applicable",
\* every value counts as a container
containsElementOfAnything(act, expect) ==
  LET actualValue == Indirect(act)
  IN  [ok |-> TRUE,
       found |-> /\ actualValue.k \in {"slice", "array"}
                 /\ \E i \in 1..Len(actualValue.es) :
                       AreEqualObjects(actualValue.es[i], expect)]
containsElement(act, expect) ==
  LET actualValue == Indirect(act)
      expectValue == Indirect(expect)
  IN  CASE actualValue.k = "string" ->
             [ok |-> TRUE,
              found |-> StringsContains(ValueString(actualValue), ValueString(expectValue))]
        [] actualValue.k = "map" ->
             [ok |-> TRUE,
              found |-> \E i \in 1..Len(actualValue.es) :
                           AreEqualObjects(actualValue.es[i].es[1], expect)]
        [] actualValue.k = "struct" ->
             [ok |-> TRUE,
              found |-> \E i \in 1..Len(StructFields(actualValue.t)) :
                           FieldMatches(StructFields(actualValue.t)[i], expect)]
        [] actualValue.k \in {"slice", "array"} ->
             [ok |-> TRUE,
              found |-> \E i \in 1..Len(actualValue.es) :
                           AreEqualObjects(actualValue.es[i], expect)]
        [] actualValue.k = "chan" ->
             \* Len is the number of buffered elements and Index panics
             IF Len(actualValue.es) = 0
             THEN [ok |-> TRUE, found |-> FALSE]
             ELSE [ok |-> FALSE, found |-> FALSE]
        [] OTHER ->
             \* Len panics and the panic is recovered
             [ok |-> FALSE, found |-> FALSE]

(***************************************************************************)
(* Fail and FailNow.                                                       *)
(***************************************************************************)
\* fmt.Sprintf for a format of literal characters and %s verbs and for
\* string arguments
RECURSIVE Sprintf(_, _)
Sprintf(format, args) ==
  IF format = <<>> THEN
    IF args = <<>> THEN <<>>
    ELSE <<37, 33, 40, 69, 88, 84, 82, 65, 32, 115, 116, 114, 105, 110, 103, 61>>
           \o args[1].str \o <<41>>
  ELSE IF Len(format) >= 2 /\ format[1] = 37 /\ format[2] = 115 THEN
    IF args = <<>>
    THEN <<37, 33, 115, 40, 77, 73, 83, 83, 73, 78, 71, 41>>
           \o Sprintf(SubSeq(format, 3, Len(format)), args)
    ELSE args[1].str \o Sprintf(SubSeq(format, 3, Len(format)), Tail(args))
  ELSE <<format[1]>> \o Sprintf(Tail(format), args)

\* the extra arguments of the model are strings
formatExtraArgs(args) ==
  IF Len(args) = 0 THEN <<>>
  ELSE IF Len(args) = 1 THEN args[1].str
  ELSE Sprintf(args[1].str, Tail(args))

\* The labels of the report that Fail builds.
Labels(args) ==
  IF Len(formatExtraArgs(args)) > 0
  THEN <<"Trace", "Error", "Messages">>
  ELSE <<"Trace", "Error">>

\* t.Errorf and t.FailNow of the sinks of the model: both record the call
\* and return.
Errorf(sink, labels) ==
  [sink EXCEPT !.log = Append(@, [method |-> "Errorf", labels |-> labels])]

SinkFailNow(sink) ==
  [sink EXCEPT !.log = Append(@, [method |-> "FailNow", labels |-> <<>>])]

\* a faulty variant: the failure is not reported
FailSilently(sink, args) == [t |-> sink, ret |-> "false"]

\* Fail(t, message, formatAndArgs...): the sink afterwards and the result
Fail(sink, args) == [t |-> Errorf(sink, Labels(args)), ret |-> "false"]

\* a faulty variant: a sink without FailNow() is downgraded to a plain failure
FailNowDowngraded(sink, args) ==
  LET failed == Fail(sink, args).t
  IN  IF sink.failNower
      THEN [t |-> SinkFailNow(failed), ret |-> "false"]
      ELSE [t |-> failed, ret |-> "false"]

\* FailNow(t, message, formatAndArgs...)
FailNow(sink, args) ==
  LET failed == Fail(sink, args).t
  IN  IF sink.failNower
      THEN [t |-> SinkFailNow(failed), ret |-> "false"]
      ELSE [t |-> failed, ret |-> "panic"]

(***************************************************************************)
(* The assertions.  Each yields the set of its possible outcomes [t, ret]: *)
(* the sink afterwards and the result.                                     *)
(***************************************************************************)
Pass(sink) == [t |-> sink, ret |-> "true"]
Panic(sink) == [t |-> sink, ret |-> "panic"]

Equal(sink, e, a, args) ==
  IF ~AreEqualObjects(e, a) THEN {Fail(sink, args)} ELSE {Pass(sink)}

NotEqual(sink, e, a, args) ==
  IF AreEqualObjects(e, a) THEN {Fail(sink, args)} ELSE {Pass(sink)}

EqualValues(sink, e, a, args) ==
  {IF r = "panic" THEN Panic(sink)
   ELSE IF r = "false" THEN Fail(sink, args)
   ELSE Pass(sink) : r \in AreEqualValues(e, a)}

\* reflect.TypeOf
TypeOf(v) == v.t

\* a faulty variant: the values are compared after conversion and the types are not
\* compared
ExactlyEqualValues(sink, e, a, args) == EqualValues(sink, e, a, args)

Exactly(sink, e, a, args) ==
  IF TypeOf(e) # TypeOf(a) THEN {Fail(sink, args)} ELSE Equal(sink, e, a, args)

Contains(sink, list, v, args) ==
  LET r == containsElement(list, v)
  IN  IF ~r.ok THEN {Fail(sink, args)}
      ELSE IF ~r.found THEN {Fail(sink, args)}
      ELSE {Pass(sink)}

NotContains(sink, list, v, args) ==
  LET r == containsElement(list, v)
  IN  IF ~r.ok THEN {Fail(sink, args)}
      ELSE IF r.found THEN {Fail(sink, args)}
      ELSE {Pass(sink)}

\* a faulty variant: every value with a non-zero payload counts as true
TrueOfNonZero(sink, v, args) ==
  IF v.n = 0 THEN {Fail(sink, args)} ELSE {Pass(sink)}

\* the type switch selects the values of type bool and leaves tv false for
\* every other type
True(sink, v, args) ==
  LET tv == IF v.t = "bool" THEN v.n = 1 ELSE FALSE
  IN  IF ~tv THEN {Fail(sink, args)} ELSE {Pass(sink)}

False(sink, v, args) ==
  LET fv == IF v.t = "bool" THEN v.n = 1 ELSE FALSE
  IN  IF fv THEN {Fail(sink, args)} ELSE {Pass(sink)}

(***************************************************************************)
(* Panics and NotPanics.  A function value is known by its identity: 0 is  *)
(* the nil function, and FuncBody tells what a call of the others does.    *)
(***************************************************************************)
\* the value a call of f panics with, and whether it panics at all
RuntimeError == Mk("struct", "runtime.errorString", 0, FALSE,
                   <<110, 105, 108, 32, 100, 101, 114, 101, 102>>, <<>>)
PanicNilError == PtrV("*runtime.PanicNilError", 20,
                      StructV("runtime.PanicNilError", <<>>))

FuncBody(f) ==
  CASE f.n = 0 -> [panics |-> TRUE, arg |-> RuntimeError]   \* call of a nil func
    [] f.n = 1 -> [panics |-> FALSE, arg |-> NilV]           \* func() {}
    [] f.n = 2 -> [panics |-> TRUE, arg |-> StringV(<<80, 97, 110, 105, 99, 33>>)]
    [] OTHER   -> [panics |-> TRUE, arg |-> NilV]            \* panic(nil)

\* recover() in a deferred call: nil when the function is not panicking; a
\* panic with a nil value is recovered as a *runtime.PanicNilError (the
\* module is built with go 1.24)
Recover(body) ==
  IF ~body.panics THEN NilV
  ELSE IF IsNilInterface(body.arg) THEN PanicNilError
  ELSE body.arg

\* a faulty variant: recover() hands out the nil value of a panic(nil) as it is
panicRecoveryNilPanic(f) ==
  LET message == IF FuncBody(f).panics THEN FuncBody(f).arg ELSE NilV
  IN  [isRecovered |-> ~IsNilInterface(message), message |-> message, invoked |-> 1]

\* f is called once, inside a function literal whose deferred call recovers
panicRecovery(f) ==
  LET message == Recover(FuncBody(f))
  IN  [isRecovered |-> ~IsNilInterface(message), message |-> message, invoked |-> 1]

Panics(sink, f, args) ==
  IF ~panicRecovery(f).isRecovered THEN {Fail(sink, args)} ELSE {Pass(sink)}

NotPanics(sink, f, args) ==
  IF panicRecovery(f).isRecovered THEN {Fail(sink, args)} ELSE {Pass(sink)}

(***************************************************************************)
(* Match and NotMatch.  The patterns of the model are written with         *)
(* literal characters and the metacharacters . ^ $ and (, so that a        *)
(* pattern compiles iff it has no ( in it: the ( is never closed.          *)
(***************************************************************************)
\* a *regexp.Regexp compiled from a pattern; the nil pointer has identity 0
RegexpV(id, pattern) == Mk("regexp", "*regexp.Regexp", id, FALSE, pattern, <<>>)

\* fmt.Sprint of a string
Sprint(v) == v.str

\* regexp.Compile succeeds
Compiles(pattern) == \A i \in 1..Len(pattern) : pattern[i] # 40

\* the pattern matches str from offset i on (i characters are before it)
RECURSIVE MatchHere(_, _, _)
MatchHere(pattern, str, i) ==
  IF pattern = <<>> THEN TRUE
  ELSE CASE Head(pattern) = 94 -> i = 0 /\ MatchHere(Tail(pattern), str, i)
         [] Head(pattern) = 36 -> i = Len(str) /\ MatchHere(Tail(pattern), str, i)
         [] Head(pattern) = 46 ->
              i < Len(str) /\ str[i + 1] # 10 /\ MatchHere(Tail(pattern), str, i + 1)
         [] OTHER ->
              i < Len(str) /\ str[i + 1] = Head(pattern)
                /\ MatchHere(Tail(pattern), str, i + 1)

\* len(r.FindStringIndex(str)) > 0
FindStringIndex(pattern, str) == \E i \in 0..Len(str) : MatchHere(pattern, str, i)

\* regexp.MustCompile panics on a pattern that does not compile, and so does
\* the method call on a nil *regexp.Regexp; the deferred call recovers and
\* sets ok to false
tryMatch(reg, str) ==
  IF reg.k = "regexp"
  THEN IF reg.n = 0 THEN FALSE ELSE FindStringIndex(reg.str, Sprint(str))
  ELSE IF ~Compiles(Sprint(reg)) THEN FALSE
  ELSE FindStringIndex(Sprint(reg), Sprint(str))

Match(sink, reg, str, args) ==
  IF ~tryMatch(reg, str) THEN {Fail(sink, args)} ELSE {Pass(sink)}

NotMatch(sink, reg, str, args) ==
  IF tryMatch(reg, str) THEN {Fail(sink, args)} ELSE {Pass(sink)}

(***************************************************************************)
(* InDelta.                                                                *)
(***************************************************************************)
\* the types of the type switch of toFloat that the model has values of
FloatableTypes == {"uint8", "int8", "int64", "float64"}

\* [xok, xf]: xf is a float64, in halves
toFloat(x) ==
  IF x.t \in FloatableTypes
  THEN [xok |-> TRUE, xf |-> IF x.k = "int" THEN FloatV(2 * x.n) ELSE x]
  ELSE [xok |-> FALSE, xf |-> FloatV(0)]

\* every comparison with a NaN is false: with a NaN delta neither dt < -delta
\* nor dt > delta holds
InDelta(sink, e, a, d, args) ==
  LET af == toFloat(e).xf
      bf == toFloat(a).xf
      dt == af.n - bf.n
  IN  IF ~toFloat(e).xok \/ ~toFloat(a).xok THEN {Fail(sink, args)}
      ELSE IF af.nan /\ bf.nan THEN {Pass(sink)}
      ELSE IF af.nan THEN {Fail(sink, args)}
      ELSE IF bf.nan THEN {Fail(sink, args)}
      ELSE IF ~d.nan /\ (dt < -d.n \/ dt > d.n) THEN {Fail(sink, args)}
      ELSE {Pass(sink)}

\* the loop of InDeltaSlice from the element of index i on (the first has
\* index 1 here): expectedSlice.Index(i) panics beyond the length of expected
RECURSIVE InDeltaSliceFrom(_, _, _, _, _)
InDeltaSliceFrom(sink, e, a, d, i) ==
  IF i > Len(a.es) THEN {Pass(sink)}
  ELSE IF i > Len(e.es) THEN {Panic(sink)}
  ELSE UNION {IF o.ret # "true" THEN {o} ELSE InDeltaSliceFrom(o.t, e, a, d, i + 1) :
                o \in InDelta(sink, a.es[i], e.es[i], d, <<>>)}

\* InDeltaSlice(t, expected, actual, delta, formatAndArgs...)
InDeltaSlice(sink, e, a, d, args) ==
  IF e.k = "nil" \/ a.k = "nil" \/ a.k # "slice" \/ e.k # "slice"
  THEN {Fail(sink, args)}
  ELSE InDeltaSliceFrom(sink, e, a, d, 1)
(***************************************************************************)
(* JSON text.  A document is a Go string, a sequence of code points, and   *)
(* is read by a recursive-descent parser.  The parser knows objects,       *)
(* arrays, strings without escape sequences, numbers without exponent,     *)
(* true, false and null.  A parsed value is a node: its kind in k, its     *)
(* raw text in str (the text between the quotes for a string), and in es   *)
(* the elements of an array or the members of an object, each an entry     *)
(* of key and node, in the order of the text.                              *)
(***************************************************************************)
\* F applied to the value of x; x is evaluated once
With(x, F(_)) == CHOOSE y \in {F(v) : v \in {x}} : TRUE

WhiteSpace == {32, 9, 10, 13}
Digits == 48..57

\* the i-th code point of s, 0 past its end
At(s, i) == IF 1 <= i /\ i <= Len(s) THEN s[i] ELSE 0

JSONV(k, raw, es) == Mk(k, "json", 0, FALSE, raw, es)

NoValue == [ok |-> FALSE, end |-> 0, v |-> NilV]
NoList == [ok |-> FALSE, end |-> 0, es |-> <<>>]

RECURSIVE skipWS(_, _)
skipWS(s, i) == IF At(s, i) \in WhiteSpace THEN skipWS(s, i + 1) ELSE i

RECURSIVE skipDigits(_, _)
skipDigits(s, i) == IF At(s, i) \in Digits THEN skipDigits(s, i + 1) ELSE i

\* the index of the quote that closes the string whose text starts at i,
\* 0 when there is none
RECURSIVE stringEnd(_, _)
stringEnd(s, i) ==
  IF i > Len(s) \/ s[i] = 92 \/ s[i] < 32 THEN 0
  ELSE IF s[i] = 34 THEN i
  ELSE stringEnd(s, i + 1)

\* s has lit at index i
HasAt(s, i, lit) == i + Len(lit) - 1 <= Len(s) /\ SubSeq(s, i, i + Len(lit) - 1) = lit

parseNumber(s, i) ==
  With(IF At(s, i) = 45 THEN i + 1 ELSE i, LAMBDA i1 :
    With(IF At(s, i1) = 48 THEN i1 + 1 ELSE skipDigits(s, i1), LAMBDA i2 :
      With(IF At(s, i2) = 46 THEN skipDigits(s, i2 + 1) ELSE i2, LAMBDA i3 :
        IF i2 > i1 /\ (At(s, i2) = 46 => i3 > i2 + 1)
        THEN [ok |-> TRUE, end |-> i3,
              v |-> JSONV("jnumber", SubSeq(s, i, i3 - 1), <<>>)]
        ELSE NoValue)))

parseLiteral(s, i) ==
  IF HasAt(s, i, <<116, 114, 117, 101>>)
    THEN [ok |-> TRUE, end |-> i + 4, v |-> JSONV("jbool", SubSeq(s, i, i + 3), <<>>)]
  ELSE IF HasAt(s, i, <<102, 97, 108, 115, 101>>)
    THEN [ok |-> TRUE, end |-> i + 5, v |-> JSONV("jbool", SubSeq(s, i, i + 4), <<>>)]
  ELSE IF HasAt(s, i, <<110, 117, 108, 108>>)
    THEN [ok |-> TRUE, end |-> i + 4, v |-> JSONV("jnull", SubSeq(s, i, i + 3), <<>>)]
  ELSE NoValue

\* parseValue reads the value that starts at i; parseMembers the members of
\* an object from the member that starts at i up to the closing brace;
\* parseElements the elements of an array up to the closing bracket
RECURSIVE parseValue(_, _), parseMembers(_, _, _), parseElements(_, _, _)
parseValue(s, i) ==
  CASE At(s, i) = 123 ->
         IF At(s, skipWS(s, i + 1)) = 125
         THEN [ok |-> TRUE, end |-> skipWS(s, i + 1) + 1,
               v |-> JSONV("jobject", SubSeq(s, i, skipWS(s, i + 1)), <<>>)]
         ELSE With(parseMembers(s, skipWS(s, i + 1), <<>>), LAMBDA m :
                IF m.ok
                THEN [ok |-> TRUE, end |-> m.end,
                      v |-> JSONV("jobject", SubSeq(s, i, m.end - 1), m.es)]
                ELSE NoValue)
    [] At(s, i) = 91 ->
         IF At(s, skipWS(s, i + 1)) = 93
         THEN [ok |-> TRUE, end |-> skipWS(s, i + 1) + 1,
               v |-> JSONV("jarray", SubSeq(s, i, skipWS(s, i + 1)), <<>>)]
         ELSE With(parseElements(s, skipWS(s, i + 1), <<>>), LAMBDA m :
                IF m.ok
                THEN [ok |-> TRUE, end |-> m.end,
                      v |-> JSONV("jarray", SubSeq(s, i, m.end - 1), m.es)]
                ELSE NoValue)
    [] At(s, i) = 34 ->
         With(stringEnd(s, i + 1), LAMBDA q :
           IF q = 0 THEN NoValue
           ELSE [ok |-> TRUE, end |-> q + 1,
                 v |-> JSONV("jstring", SubSeq(s, i + 1, q - 1), <<>>)])
    [] At(s, i) = 45 \/ At(s, i) \in Digits -> parseNumber(s, i)
    [] OTHER -> parseLiteral(s, i)

parseMembers(s, i, acc) ==
  IF At(s, i) # 34 THEN NoList
  ELSE With(stringEnd(s, i + 1), LAMBDA q :
    IF q = 0 \/ At(s, skipWS(s, q + 1)) # 58 THEN NoList
    ELSE With(parseValue(s, skipWS(s, skipWS(s, q + 1) + 1)), LAMBDA r :
      IF ~r.ok THEN NoList
      ELSE With(skipWS(s, r.end), LAMBDA d :
        With(Append(acc, EntryV(StringV(SubSeq(s, i + 1, q - 1)), r.v)), LAMBDA members :
          IF At(s, d) = 125 THEN [ok |-> TRUE, end |-> d + 1, es |-> members]
          ELSE IF At(s, d) = 44 THEN parseMembers(s, skipWS(s, d + 1), members)
          ELSE NoList))))

parseElements(s, i, acc) ==
  With(parseValue(s, i), LAMBDA r :
    IF ~r.ok THEN NoList
    ELSE With(skipWS(s, r.end), LAMBDA d :
      With(Append(acc, r.v), LAMBDA elements :
        IF At(s, d) = 93 THEN [ok |-> TRUE, end |-> d + 1, es |-> elements]
        ELSE IF At(s, d) = 44 THEN parseElements(s, skipWS(s, d + 1), elements)
        ELSE NoList)))

\* the whole of s is one JSON value between optional white space
Parse(s) ==
  With(parseValue(s, skipWS(s, 1)), LAMBDA r :
    IF r.ok /\ skipWS(s, r.end) = Len(s) + 1 THEN r ELSE NoValue)

(***************************************************************************)
(* getJsonValue and the jsonparser functions it calls.  jsonparser works   *)
(* on the raw text and hands out raw text: Get and ArrayEach are modelled  *)
(* for what they do on a well-formed document, and on text that is no      *)
(* JSON value at all, where they find nothing and return an error.         *)
(***************************************************************************)
\* the index of the first member of the object with that key, 0 when absent
RECURSIVE MemberIndex(_, _, _)
MemberIndex(members, name, i) ==
  IF i > Len(members) THEN 0
  ELSE IF members[i].es[1].str = name THEN i
  ELSE MemberIndex(members, name, i + 1)

\* jsonparser.Get(buf, name): the raw text of the member called name of the
\* object in buf, a string without its quotes
Get(buf, name) ==
  With(Parse(buf), LAMBDA r :
    IF r.ok /\ r.v.k = "jobject"
    THEN With(MemberIndex(r.v.es, name, 1), LAMBDA i :
           IF i # 0 THEN [err |-> FALSE, data |-> r.v.es[i].es[2].str]
           ELSE [err |-> TRUE, data |-> <<>>])
    ELSE [err |-> TRUE, data |-> <<>>])

\* jsonparser.ArrayEach(buf, cb): the raw texts the callback is called with,
\* one for each element of the array in buf
ArrayEach(buf) ==
  With(Parse(buf), LAMBDA r :
    IF r.ok /\ r.v.k = "jarray"
    THEN [err |-> FALSE, values |-> [i \in 1..Len(r.v.es) |-> r.v.es[i].str]]
    ELSE [err |-> TRUE, values |-> <<>>])

\* the index of the first full stop of s from i on, 0 when there is none
RECURSIVE IndexDot(_, _)
IndexDot(s, i) ==
  IF i > Len(s) THEN 0 ELSE IF s[i] = 46 THEN i ELSE IndexDot(s, i + 1)

\* strings.SplitN(s, ".", 2)
SplitN(s) ==
  LET i == IndexDot(s, 1)
  IN  IF i = 0 THEN <<s>> ELSE <<SubSeq(s, 1, i - 1), SubSeq(s, i + 1, Len(s))>>

\* the number written by a sequence of digits
RECURSIVE DigitsValue(_)
DigitsValue(ds) ==
  IF ds = <<>> THEN 0 ELSE 10 * DigitsValue(SubSeq(ds, 1, Len(ds) - 1)) + (ds[Len(ds)] - 48)

\* the longest segment of digits that is parsed
MaxDigits == 9

\* strconv.ParseInt(s, 10, 32): an optional sign and digits; the texts of the
\* model have at most MaxDigits digits, which is within 32 bits
ParseInt(s) ==
  LET signed == At(s, 1) \in {43, 45}
      ds == IF signed THEN Tail(s) ELSE s
  IN  IF ds # <<>> /\ Len(ds) <= MaxDigits /\ \A i \in 1..Len(ds) : ds[i] \in Digits
      THEN [e |-> FALSE, n |-> IF At(s, 1) = 45 THEN -DigitsValue(ds) ELSE DigitsValue(ds)]
      ELSE [e |-> TRUE, n |-> 0]

\* a faulty variant: the path is looked up as one key and never split
getJsonValueRawKey(jsonStr, jsonKey) == Get(jsonStr, jsonKey)

\* a faulty variant: the rest of the path is never looked up as one key, the
\* path is split first
RECURSIVE getJsonValueLoopSplitFirst(_, _)
getJsonValueLoopSplitFirst(buf, path) ==
  With(SplitN(path), LAMBDA parts :
    With(Get(buf, parts[1]), LAMBDA got :
      IF ~got.err THEN
        IF Len(parts) # 2 THEN [err |-> FALSE, data |-> got.data]
        ELSE getJsonValueLoopSplitFirst(got.data, parts[2])
      ELSE With(ParseInt(parts[1]), LAMBDA idx :
        IF idx.e THEN [err |-> TRUE, data |-> <<>>]
        ELSE With(ArrayEach(buf), LAMBDA each :
          IF each.err THEN [err |-> TRUE, data |-> <<>>]
          ELSE With(IF 0 <= idx.n /\ idx.n < Len(each.values)
                    THEN each.values[idx.n + 1] ELSE got.data, LAMBDA data :
            IF Len(parts) # 2 THEN [err |-> FALSE, data |-> data]
            ELSE IF 0 <= idx.n /\ idx.n < Len(each.values)
              THEN getJsonValueLoopSplitFirst(data, parts[2])
            ELSE getJsonValueLoopSplitFirst(buf, parts[2]))))))

\* One round of the loop of getJsonValue and the rounds after it: buf is the
\* text looked into, path the rest of the key.  [err, data]: data is nil,
\* written <<>>, when err is set.
RECURSIVE getJsonValueLoop(_, _)
getJsonValueLoop(buf, path) ==
  With(Get(buf, path), LAMBDA raw :
    IF ~raw.err THEN [err |-> FALSE, data |-> raw.data]
    ELSE With(SplitN(path), LAMBDA parts :
      With(Get(buf, parts[1]), LAMBDA got :
        IF ~got.err THEN
          IF Len(parts) # 2 THEN [err |-> FALSE, data |-> got.data]
          ELSE getJsonValueLoop(got.data, parts[2])
        ELSE With(ParseInt(parts[1]), LAMBDA idx :
          IF idx.e THEN [err |-> TRUE, data |-> <<>>]
          ELSE With(ArrayEach(buf), LAMBDA each :
            IF each.err THEN [err |-> TRUE, data |-> <<>>]
            \* the callback assigns data and buf when i == n
            ELSE With(IF 0 <= idx.n /\ idx.n < Len(each.values)
                      THEN each.values[idx.n + 1] ELSE got.data, LAMBDA data :
              IF Len(parts) # 2 THEN [err |-> FALSE, data |-> data]
              ELSE IF 0 <= idx.n /\ idx.n < Len(each.values)
                THEN getJsonValueLoop(data, parts[2])
              ELSE getJsonValueLoop(buf, parts[2])))))))

getJsonValue(jsonStr, jsonKey) == getJsonValueLoop(jsonStr, jsonKey)

\* a faulty variant: the assertion succeeds when the key is found
NotContainsJSONFound(sink, doc, path, args) ==
  IF getJsonValue(doc.str, path).err THEN {Fail(sink, args)} ELSE {Pass(sink)}
NotContainsJSON(sink, doc, path, args) ==
  IF ~getJsonValue(doc.str, path).err THEN {Fail(sink, args)} ELSE {Pass(sink)}

NotEmptyJSON(sink, doc, path, args) ==
  With(getJsonValue(doc.str, path), LAMBDA r :
    IF r.err THEN {Fail(sink, args)}
    ELSE IF Len(r.data) = 0 THEN {Fail(sink, args)}
    ELSE {Pass(sink)})
(***************************************************************************)
(* encoding/json, for EqualJSON and ContainsJSON.  Numbers of the model    *)
(* are integers and halves, written with at most one digit of fraction.    *)
(***************************************************************************)
\* the float64 a JSON number decodes to, in halves
NumberHalves(text) ==
  LET neg == At(text, 1) = 45
      body == IF neg THEN Tail(text) ELSE text
      dot == IndexDot(body, 1)
      whole == IF dot = 0 THEN body ELSE SubSeq(body, 1, dot - 1)
      half == IF dot # 0 /\ At(body, dot + 1) >= 53 THEN 1 ELSE 0
      h == 2 * DigitsValue(whole) + half
  IN  IF neg THEN -h ELSE h

\* the members of an object without those that a later member of the same
\* key replaces
RECURSIVE LastMembers(_)
LastMembers(members) ==
  IF members = <<>> THEN <<>>
  ELSE IF \E i \in 2..Len(members) : members[i].es[1] = members[1].es[1]
    THEN LastMembers(Tail(members))
  ELSE <<Head(members)>> \o LastMembers(Tail(members))

\* json.Unmarshal into an interface{}: the value a node decodes to; id is
\* the identity of the maps and slices made for it
RECURSIVE Decode(_, _)
Decode(node, id) ==
  CASE node.k = "jobject" ->
         With(LastMembers(node.es), LAMBDA members :
           MapV("map[string]interface {}", id,
                [i \in 1..Len(members) |->
                   EntryV(members[i].es[1], Decode(members[i].es[2], id))]))
    [] node.k = "jarray" ->
         SliceV("[]interface {}", id, [i \in 1..Len(node.es) |-> Decode(node.es[i], id)])
    [] node.k = "jstring" -> StringV(node.str)
    [] node.k = "jnumber" -> FloatV(NumberHalves(node.str))
    [] node.k = "jbool" -> BoolV(node.str = <<116, 114, 117, 101>>)
    [] OTHER -> NilV

\* json.Unmarshal([]byte(text), &v) for an interface{} v
Unmarshal(text, id) ==
  With(Parse(text), LAMBDA r :
    IF r.ok THEN [err |-> FALSE, v |-> Decode(r.v, id)] ELSE [err |-> TRUE, v |-> NilV])

\* a faulty variant: the documents are compared as texts
EqualJSONByText(sink, e, a, args) ==
  IF Unmarshal(e.str, 1).err \/ Unmarshal(a.str, 2).err \/ e.str # a.str
  THEN {Fail(sink, args)}
  ELSE {Pass(sink)}

EqualJSON(sink, e, a, args) ==
  With(Unmarshal(e.str, 1), LAMBDA expectedJSONAsInterface :
    IF expectedJSONAsInterface.err THEN {Fail(sink, args)}
    ELSE With(Unmarshal(a.str, 2), LAMBDA actualJSONAsInterface :
      IF actualJSONAsInterface.err THEN {Fail(sink, args)}
      ELSE Equal(sink, expectedJSONAsInterface.v, actualJSONAsInterface.v, args)))
\* the decimal digits of a natural number
RECURSIVE Decimal(_)
Decimal(n) == IF n < 10 THEN <<48 + n>> ELSE Decimal(n \div 10) \o <<48 + (n % 10)>>

\* a float64 as encoding/json writes it
FormatHalves(h) ==
  LET a == IF h < 0 THEN -h ELSE h
  IN  (IF h < 0 THEN <<45>> ELSE <<>>) \o Decimal(a \div 2)
        \o (IF a % 2 = 1 THEN <<46, 53>> ELSE <<>>)

Quote(str) == <<34>> \o str \o <<34>>

\* a sorts before b, byte by byte
RECURSIVE LexLess(_, _)
LexLess(a, b) ==
  IF b = <<>> THEN FALSE
  ELSE IF a = <<>> THEN TRUE
  ELSE IF Head(a) # Head(b) THEN Head(a) < Head(b)
  ELSE LexLess(Tail(a), Tail(b))

\* the entries of a map in the order of their keys
RECURSIVE SortedEntries(_)
SortedEntries(es) ==
  IF es = <<>> THEN <<>>
  ELSE LET m == CHOOSE i \in 1..Len(es) :
                  \A j \in 1..Len(es) : ~LexLess(es[j].es[1].str, es[i].es[1].str)
       IN  <<es[m]>> \o SortedEntries([i \in 1..(Len(es) - 1) |->
                                          IF i < m THEN es[i] ELSE es[i + 1]])

\* json.Marshal, [err, text], for nil, booleans, integers, floats, strings,
\* pointers, slices, arrays and maps with string keys; a func, chan or
\* complex value and a NaN are refused.  MarshalList writes the values of a
\* sequence with commas between them, MarshalEntries the entries of a map.
RECURSIVE Marshal(_), MarshalList(_), MarshalEntries(_)
Marshal(v) ==
  CASE v.k = "nil" -> [err |-> FALSE, text |-> <<110, 117, 108, 108>>]
    [] v.k = "bool" ->
         [err |-> FALSE,
          text |-> IF v.n = 1 THEN <<116, 114, 117, 101>> ELSE <<102, 97, 108, 115, 101>>]
    [] v.k = "int" ->
         [err |-> FALSE,
          text |-> IF v.n < 0 THEN <<45>> \o Decimal(-v.n) ELSE Decimal(v.n)]
    [] v.k = "float" ->
         IF v.nan THEN [err |-> TRUE, text |-> <<>>]
         ELSE [err |-> FALSE, text |-> FormatHalves(v.n)]
    [] v.k = "string" -> [err |-> FALSE, text |-> Quote(v.str)]
    [] v.k = "ptr" ->
         IF IsNil(v) THEN [err |-> FALSE, text |-> <<110, 117, 108, 108>>]
         ELSE Marshal(Elem(v))
    [] v.k = "slice" /\ IsNil(v) -> [err |-> FALSE, text |-> <<110, 117, 108, 108>>]
    [] v.k \in {"slice", "array"} ->
         With(MarshalList(v.es), LAMBDA list :
           [err |-> list.err, text |-> <<91>> \o list.text \o <<93>>])
    [] v.k = "map" ->
         IF IsNil(v) THEN [err |-> FALSE, text |-> <<110, 117, 108, 108>>]
         ELSE With(MarshalEntries(SortedEntries(v.es)), LAMBDA list :
                [err |-> list.err, text |-> <<123>> \o list.text \o <<125>>])
    [] OTHER -> [err |-> TRUE, text |-> <<>>]

MarshalList(es) ==
  IF es = <<>> THEN [err |-> FALSE, text |-> <<>>]
  ELSE With(Marshal(Head(es)), LAMBDA first :
         With(MarshalList(Tail(es)), LAMBDA rest :
           [err |-> first.err \/ rest.err,
            text |-> first.text \o (IF Tail(es) = <<>> THEN <<>> ELSE <<44>>)
                       \o rest.text]))

MarshalEntries(es) ==
  IF es = <<>> THEN [err |-> FALSE, text |-> <<>>]
  ELSE With(Marshal(Head(es).es[2]), LAMBDA first :
         With(MarshalEntries(Tail(es)), LAMBDA rest :
           [err |-> first.err \/ rest.err,
            text |-> Quote(Head(es).es[1].str) \o <<58>> \o first.text
                       \o (IF Tail(es) = <<>> THEN <<>> ELSE <<44>>) \o rest.text]))

isJsonEqualObject(data, obj) ==
  With(Unmarshal(data, 3), LAMBDA value :
    IF value.err THEN FALSE
    ELSE With(Marshal(value.v), LAMBDA jsonValue :
      IF jsonValue.err THEN FALSE
      ELSE With(Marshal(obj), LAMBDA objValue :
        IF objValue.err THEN FALSE
        ELSE jsonValue.text = objValue.text)))

\* the text is an integer without fraction
IsIntegerText(text) == LET r == parseNumber(text, 1)
                       IN  r.ok /\ r.end = Len(text) + 1 /\ IndexDot(text, 1) = 0

\* json.Unmarshal(data, actualValue.Interface()) for a pointer to a []int64,
\* the slice type of the model: null leaves the slice nil, an array of
\* integers and nulls fills it, anything else is an error
UnmarshalSlice(data, ty) ==
  With(Parse(data), LAMBDA r :
    IF ty # "[]int64" \/ ~r.ok THEN [err |-> TRUE, v |-> NilV]
    ELSE IF r.v.k = "jnull" THEN [err |-> FALSE, v |-> SliceV(ty, 0, <<>>)]
    ELSE IF r.v.k = "jarray"
            /\ \A i \in 1..Len(r.v.es) :
                  \/ r.v.es[i].k = "jnull"
                  \/ r.v.es[i].k = "jnumber" /\ IsIntegerText(r.v.es[i].str)
      THEN [err |-> FALSE,
            v |-> SliceV(ty, 97,
                         [i \in 1..Len(r.v.es) |->
                            IF r.v.es[i].k = "jnull" THEN IntV("int64", 0)
                            ELSE IntV("int64", NumberHalves(r.v.es[i].str) \div 2)])]
    ELSE [err |-> TRUE, v |-> NilV])

\* strconv.Atoi and strconv.ParseInt(s, 10, 64) with the error dropped: 0
\* for a text that is no integer
Atoi(s) == ParseInt(s).n

\* strconv.ParseFloat(s, 64) with the error dropped, in halves: the texts of
\* the model are JSON numbers or no numbers at all
ParseFloat(s) ==
  LET r == parseNumber(s, 1)
  IN  IF r.ok /\ r.end = Len(s) + 1 THEN NumberHalves(s) ELSE 0

\* strings.ToLower
ToLower(s) == [i \in 1..Len(s) |-> IF 65 <= s[i] /\ s[i] <= 90 THEN s[i] + 32 ELSE s[i]]

\* "true", "1", "on", "yes"
Truthy == {<<116, 114, 117, 101>>, <<49>>, <<111, 110>>, <<121, 101, 115>>}

\* the []byte handed to EqualValues; the byte slices ContainsJSON is given
\* in the model are not empty
BytesV(data) == SliceV("[]uint8", 98, [i \in 1..Len(data) |-> IntV("uint8", data[i])])

\* the message that ContainsJSON gives to EqualValues, True and False
ContainsMessage == <<StringV(<<69, 120, 112, 101, 99, 116, 101, 100>>)>>

ContainsJSON(sink, doc, path, value, args) ==
  With(getJsonValue(doc.str, path), LAMBDA r :
    IF r.err THEN {Fail(sink, args)}
    ELSE CASE value.t = "[]uint8" ->
                EqualValues(sink, value, BytesV(r.data), ContainsMessage)
           [] value.t = "string" ->
                EqualValues(sink, value, StringV(r.data), ContainsMessage)
           [] value.t = "int8" ->
                EqualValues(sink, value, IntV("int8", WrapInt("int8", Atoi(r.data))),
                            ContainsMessage)
           [] value.t = "int64" ->
                EqualValues(sink, value, IntV("int64", Atoi(r.data)), ContainsMessage)
           [] value.t = "float64" ->
                EqualValues(sink, value, FloatV(ParseFloat(r.data)), ContainsMessage)
           [] value.t = "bool" ->
                IF ToLower(r.data) \in Truthy
                THEN True(sink, value, ContainsMessage)
                ELSE False(sink, value, ContainsMessage)
           \* reflect.TypeOf(nil) is nil and its Kind() panics
           [] value.k = "nil" -> {Panic(sink)}
           \* the branches that test isJsonEqualObject return when it is
           \* false and run on to the last statement, a Fail, when it is true
           [] value.k \in {"ptr", "func"} ->
                IF ~isJsonEqualObject(r.data, value) THEN {Fail(sink, args)}
                ELSE {Fail(sink, args)}
           \* the model gives ContainsJSON slices, and no arrays or structs
           [] value.k = "slice" ->
                With(UnmarshalSlice(r.data, value.t), LAMBDA actualValue :
                  IF ~actualValue.err
                  THEN EqualValues(sink, value, actualValue.v, ContainsMessage)
                  ELSE IF ~isJsonEqualObject(r.data, value) THEN {Fail(sink, args)}
                  ELSE {Fail(sink, args)})
           [] OTHER -> {Fail(sink, args)})
(***************************************************************************)
(* isEmpty, Empty and NotEmpty.                                            *)
(***************************************************************************)
\* a time.Time without monotonic reading: wall holds the nanoseconds, ext
\* the seconds since year 1, loc is nil
TimeV(sec, nsec) ==
  StructV("time.Time", <<IntV("uint64", nsec), IntV("int64", sec), NilPtrV("*time.Location")>>)

\* time.Time.IsZero
IsZero(tm) == tm.es[2].n = 0 /\ tm.es[1].n = 0

numericZeros ==
  { IntV("int", 0), IntV("int8", 0), IntV("int16", 0), IntV("int32", 0), IntV("int64", 0),
    IntV("uint", 0), IntV("uint8", 0), IntV("uint16", 0), IntV("uint32", 0),
    IntV("uint64", 0),
    Mk("float", "float32", 0, FALSE, <<>>, <<>>), FloatV(0) }

\* x == y for two interface values of which x holds a bool, a number or a
\* string: the same dynamic type and equal values
InterfaceEqual(x, y) == x.t = y.t /\ ~y.nan /\ x.n = y.n /\ x.str = y.str

\* a faulty variant: a pointer to an empty value is empty as well
isEmptyDeep(v) ==
  \/ IsNilInterface(v)
  \/ InterfaceEqual(StringV(<<>>), v)
  \/ InterfaceEqual(BoolV(FALSE), v)
  \/ \E num \in numericZeros : InterfaceEqual(num, v)
  \/ v.k \in {"map", "slice", "chan"} /\ Len(v.es) = 0
  \/ v.k = "struct" /\ v.t = "time.Time" /\ IsZero(v)
  \/ v.k = "ptr" /\ IsNil(v)
  \/ v.k = "ptr" /\ ~IsNil(v) /\ v.t = "*time.Time" /\ IsZero(Elem(v))
  \/ v.k = "ptr" /\ ~IsNil(v) /\ v.t # "*time.Time"
       /\ (Elem(v).k \in {"int", "float", "bool", "string"}
             /\ ~Elem(v).nan /\ Elem(v).n = 0 /\ Elem(v).str = <<>>)

isEmpty(v) ==
  IF IsNilInterface(v) \/ InterfaceEqual(StringV(<<>>), v) \/ InterfaceEqual(BoolV(FALSE), v)
  THEN TRUE
  ELSE IF \E num \in numericZeros : InterfaceEqual(num, v) THEN TRUE
  ELSE CASE v.k \in {"map", "slice", "chan"} -> Len(v.es) = 0
         [] v.k = "struct" -> IF v.t = "time.Time" THEN IsZero(v) ELSE FALSE
         [] v.k = "ptr" ->
              IF IsNil(v) THEN TRUE
              ELSE IF v.t = "*time.Time" THEN IsZero(Elem(v))
              ELSE FALSE
         [] OTHER -> FALSE

Empty(sink, v, args) ==
  LET pass == isEmpty(v)
  IN  IF ~pass THEN {[t |-> Fail(sink, args).t, ret |-> "false"]} ELSE {Pass(sink)}

NotEmpty(sink, v, args) ==
  LET pass == ~isEmpty(v)
  IN  IF ~pass THEN {[t |-> Fail(sink, args).t, ret |-> "false"]} ELSE {Pass(sink)}
(***************************************************************************)
(* diffValues.  A string is its sequence of lines here, with the colour    *)
(* each line is painted in; the empty string has no line.                  *)
(***************************************************************************)
RECURSIVE JoinSyntax(_)
\* fmt's %#v of a value, which pretty.Sprintf hands the values to: the nil
\* interface makes the formatter panic, and fmt prints the panic
GoSyntax(v) ==
  CASE v.k = "nil" ->
         <<37, 33, 118, 40, 80, 65, 78, 73, 67, 61, 70, 111, 114, 109, 97, 116, 32, 109,
           101, 116, 104, 111, 100, 58, 32, 114, 101, 102, 108, 101, 99, 116, 58, 32, 99,
           97, 108, 108, 32, 111, 102, 32, 114, 101, 102, 108, 101, 99, 116, 46, 86, 97,
           108, 117, 101, 46, 73, 110, 116, 101, 114, 102, 97, 99, 101, 32, 111, 110, 32,
           122, 101, 114, 111, 32, 86, 97, 108, 117, 101, 41>>
    [] v.k = "string" -> Quote(v.str)
    [] v.k = "bool" -> IF v.n = 1 THEN <<116, 114, 117, 101>> ELSE <<102, 97, 108, 115, 101>>
    [] v.k = "int" -> IF v.n < 0 THEN <<45>> \o Decimal(-v.n) ELSE Decimal(v.n)
    [] v.k = "float" -> FormatHalves(v.n)
    [] v.k = "slice" /\ IsNil(v) -> TypeString(v.t) \o <<40, 110, 105, 108, 41>>
    [] OTHER -> TypeString(v.t) \o <<123>> \o JoinSyntax(v.es) \o <<125>>

\* the elements of a slice or array, with ", " between them
JoinSyntax(es) ==
  IF es = <<>> THEN <<>>
  ELSE IF Len(es) = 1 THEN GoSyntax(es[1])
  ELSE GoSyntax(es[1]) \o <<44, 32>> \o JoinSyntax(Tail(es))

prettifyValues(e, a) == [es |-> GoSyntax(e), as |-> GoSyntax(a)]

\* difflib.GetUnifiedDiffString with one line of context, the lines of the
\* diff of two texts of one line each: none when the texts are the same
GetUnifiedDiffString(a, b) ==
  IF a = b THEN <<>>
  ELSE << <<45, 45, 45, 32, 69, 120, 112, 101, 99, 116, 101, 100>>,
          <<43, 43, 43, 32, 65, 99, 116, 117, 97, 108>>,
          <<64, 64, 32, 45, 49, 32, 43, 49, 32, 64, 64>>,
          <<45>> \o a,
          <<43>> \o b >>

\* pretty.Diff of two values whose %#v is the same text: the types differ,
\* or nothing does
prettyDiff(e, a) ==
  IF e.t # a.t THEN <<TypeString(e.t) \o <<32, 33, 61, 32>> \o TypeString(a.t)>>
  ELSE <<>>

\* the colour diffColorize sets for a line
LineColor(line) ==
  IF Len(line) > 0 /\ line[1] = 43 THEN "blue"
  ELSE IF Len(line) > 0 /\ line[1] = 45 THEN "red"
  ELSE "gray"

\* strings.Split(diffs, "\n") ends with the empty string that follows the
\* last newline of the diff
diffColorize(diffs) ==
  [i \in 1..(Len(diffs) + 1) |->
     IF i <= Len(diffs) THEN [fg |-> LineColor(diffs[i]), line |-> diffs[i]]
     ELSE [fg |-> "gray", line |-> <<>>]]

\* "\n\n" before and "\n" after the lines
Framed(lines) ==
  <<[fg |-> "none", line |-> <<>>], [fg |-> "none", line |-> <<>>]>> \o lines

diffValues(e, a) ==
  With(prettifyValues(e, a), LAMBDA s :
    With(GetUnifiedDiffString(s.es, s.as), LAMBDA diffs :
      IF Len(diffs) = 0
      THEN IF Len(prettyDiff(e, a)) = 0 THEN <<>>
           ELSE Framed([i \in 1..Len(prettyDiff(e, a)) |->
                          [fg |-> "none", line |-> prettyDiff(e, a)[i]]])
      ELSE Framed(diffColorize(diffs))))
(***************************************************************************)
(* Nil, NotNil, Zero, NotZero, Len, IsError, NotError and EqualErrors.     *)
(***************************************************************************)
\* isNil of asserts.go: a nil interface, or a nil value of a kind that has nil
isNil(v) ==
  IF v.k = "nil" THEN TRUE
  ELSE IF v.k \in {"chan", "func", "map", "ptr", "slice"} THEN IsNil(v)
  ELSE FALSE

Nil(sink, v, args) == IF isNil(v) THEN {Pass(sink)} ELSE {Fail(sink, args)}

NotNil(sink, v, args) == IF ~isNil(v) THEN {Pass(sink)} ELSE {Fail(sink, args)}

\* reflect.Zero(reflect.TypeOf(v)).Interface()
RECURSIVE ZeroOf(_)
ZeroOf(v) ==
  IF v.k \in {"array", "struct"}
  THEN [v EXCEPT !.es = [i \in 1..Len(v.es) |-> ZeroOf(v.es[i])]]
  ELSE Mk(v.k, v.t, 0, FALSE, <<>>, <<>>)

Zero(sink, v, args) ==
  IF v.k # "nil" /\ ~DeepEqual(v, ZeroOf(v)) THEN {Fail(sink, args)} ELSE {Pass(sink)}

NotZero(sink, v, args) ==
  IF v.k = "nil" \/ DeepEqual(v, ZeroOf(v)) THEN {Fail(sink, args)} ELSE {Pass(sink)}

\* getLen: reflect.Value.Len panics for a value of a kind without length,
\* and the panic is recovered into ok = false
getLen(v) ==
  IF v.k \in {"array", "chan", "map", "slice"} THEN [n |-> Len(v.es), ok |-> TRUE]
  ELSE IF v.k = "string" THEN [n |-> Len(v.str), ok |-> TRUE]
  ELSE [n |-> 0, ok |-> FALSE]

\* Len(t, v, length, formatAndArgs...)
AssertLen(sink, v, length, args) ==
  IF ~getLen(v).ok THEN {Fail(sink, args)}
  ELSE IF getLen(v).n # length THEN {Fail(sink, args)}
  ELSE {Pass(sink)}

\* an error made by errors.New(text): a pointer to an errors.errorString
ErrorV(addr, text) ==
  PtrV("*errors.errorString", addr, StructV("errors.errorString", <<StringV(text)>>))

\* err, ok := v.(error): the types of the model with an Error method
IsErrorType(v) == v.t = "*errors.errorString"

IsError(sink, v, args) ==
  IF ~IsErrorType(v) THEN {Fail(sink, args)} ELSE {Pass(sink)}

NotError(sink, v, args) ==
  IF v.k = "nil" THEN {Pass(sink)}
  ELSE IF IsErrorType(v) THEN {Fail(sink, args)}
  ELSE {Pass(sink)}

\* errors.Is for errors that wrap nothing and have no Is method: err == target
errorsIs(err, target) == err.t = target.t /\ err.n = target.n

\* a faulty variant: a value that is no error fails without a report
EqualErrorsQuiet(sink, e, a, args) ==
  IF ~IsErrorType(e) \/ ~IsErrorType(a) THEN {[t |-> sink, ret |-> "false"]}
  ELSE IF errorsIs(a, e) THEN {Pass(sink)}
  ELSE Equal(sink, e, a, args)

EqualErrors(sink, e, a, args) ==
  IF IsError(sink, e, args) # {Pass(sink)} THEN IsError(sink, e, args)
  ELSE IF IsError(sink, a, args) # {Pass(sink)} THEN IsError(sink, a, args)
  ELSE IF errorsIs(a, e) THEN {Pass(sink)}
  ELSE Equal(sink, e, a, args)
(***************************************************************************)
(* The values the assertions are applied to.                               *)
(***************************************************************************)
Int64s == {IntV("int64", 5), IntV("int64", 257)}

P1 == PtrV("*int64", 1, IntV("int64", 5))
P2 == PtrV("*int64", 2, IntV("int64", 5))
T1 == StructV("main.T", <<StringV(<<97>>), IntV("int64", 5), StringV(<<>>), IntV("int64", 5)>>)
T2 == StructV("main.T", <<StringV(<<97>>), IntV("int64", 257), StringV(<<>>), IntV("int64", 5)>>)
M(id, n) == MapV("map[string]int64", id, <<EntryV(StringV(<<97>>), IntV("int64", n))>>)

Scalars ==
  { NilV, BoolV(TRUE), IntV("int8", 1), IntV("int8", 5), FloatV(2), FloatV(3),
    NaNV, ComplexNaNV, StringV(<<97>>) } \cup Int64s

Pointers ==
  { P1, P2, PtrV("*int64", 3, IntV("int64", 257)), PtrV("*int8", 4, IntV("int8", 5)),
    NilPtrV("*int64"), PtrV("**int64", 5, P1), PtrV("**int64", 6, P2),
    PtrV("*float64", 7, NaNV), PtrV("*main.T", 8, T1) }

Composites ==
  { SliceV("[]int64", 0, <<>>), SliceV("[]int64", 1, <<>>),
    SliceV("[]int64", 2, <<IntV("int64", 5)>>), SliceV("[]int64", 3, <<IntV("int64", 5)>>),
    SliceV("[]float64", 4, <<NaNV>>),
    ArrayV("[1]float64", <<NaNV>>), ArrayV("[1]float64", <<FloatV(2)>>),
    MapV("map[string]int64", 0, <<>>), M(1, 5), M(2, 5), M(3, 257),
    T1, T2, StructV("main.U", <<NaNV>>),
    FuncV(0), FuncV(1), ChanV(1, <<>>), ChanV(2, <<>>) }

Values == Scalars \cup Pointers \cup Composites

\* the identity of the backing array of a generated slice
RECURSIVE Code(_)
Code(es) ==
  IF es = <<>> THEN 0
  ELSE (IF Head(es).n = 5 THEN 1 ELSE 2) + 3 * Code(Tail(es))

Slices ==
  {SliceV("[]int64", 10 + Code(es), es) : es \in UNION {[1..m -> Int64s] : m \in 0..MaxLen}}

Containers ==
  Slices \cup
  { ArrayV("[1]float64", <<NaNV>>), ArrayV("[1]float64", <<FloatV(2)>>),
    SliceV("[]interface {}", 5, <<NilV, P1>>),
    PtrV("*[]int64", 9, SliceV("[]int64", 2, <<IntV("int64", 5)>>)),
    T1, PtrV("*main.T", 8, T1), StructV("main.U", <<NaNV>>),
    M(1, 5), MapV("map[string]int64", 0, <<>>),
    StringV(<<>>), StringV(<<97, 98>>),
    ChanV(1, <<>>), ChanV(3, <<IntV("int64", 5)>>),
    NilV, IntV("int64", 5), FuncV(1), NilPtrV("*int64"),
    BoolV(TRUE), BoolV(FALSE), FloatV(3) }

Elements ==
  { NilV, IntV("int8", 5), FloatV(2), NaNV, P1, P2,
    StringV(<<>>), StringV(<<97>>), StringV(<<65>>), StringV(<<66>>),
    StringV(<<99>>), StringV(<<120>>), StringV(<<68>>), StringV(<<100>>),
    StringV(<<100, 44, 111, 109, 105, 116, 101, 109, 112, 116, 121>>),
    PtrV("*string", 10, StringV(<<97>>)) } \cup Int64s

Inputs == (Values \X Values) \cup (Elements \X Containers)

\* the extra arguments of an assertion: none, a message, an empty message,
\* a format with its argument
ExtraArgs ==
  { <<>>, <<StringV(<<109>>)>>, <<StringV(<<>>)>>,
    <<StringV(<<37, 115>>), StringV(<<>>)>>, <<StringV(<<37, 115>>), StringV(<<109>>)>> }

Sinks == {[failNower |-> b, log |-> <<>>] : b \in BOOLEAN}

(***************************************************************************)
(* The state machine: a test function holds a sink and two values and      *)
(* calls assertions on them.                                               *)
(***************************************************************************)
Init ==
  /\ t \in Sinks
  /\ \E in \in Inputs : expected = in[1] /\ actual = in[2]
  /\ keyPath = <<>>
  /\ delta = FloatV(0)
  /\ op = "none"
  /\ ret = "none"
  /\ calls = <<>>
  /\ invoked = 0
  /\ out = <<>>
  /\ routines = <<>>
  /\ loop = <<>>

\* the methods of the sink called between the sinks before and after
Called(before, after) ==
  [i \in 1..(Len(after.log) - Len(before.log)) |-> after.log[Len(before.log) + i].method]

\* an assertion that calls the function it was given n times
CallInvoking(name, outcomes, n) ==
  /\ Len(t.log) + 2 <= MaxLog
  /\ \E r \in outcomes :
        /\ t' = r.t
        /\ ret' = r.ret
        /\ calls' = Called(t, r.t)
  /\ op' = name
  /\ invoked' = n
  /\ UNCHANGED <<expected, actual, keyPath, delta, out, routines, loop>>

Call(name, outcomes) == CallInvoking(name, outcomes, 0)

CallFail == \E args \in ExtraArgs : Call("Fail", {Fail(t, args)})
CallFailNow == \E args \in ExtraArgs : Call("FailNow", {FailNow(t, args)})
CallEqual == \E args \in ExtraArgs : Call("Equal", Equal(t, expected, actual, args))
CallNotEqual == \E args \in ExtraArgs : Call("NotEqual", NotEqual(t, expected, actual, args))
CallEqualValues ==
  \E args \in ExtraArgs : Call("EqualValues", EqualValues(t, expected, actual, args))
CallExactly == \E args \in ExtraArgs : Call("Exactly", Exactly(t, expected, actual, args))
CallContains == \E args \in ExtraArgs : Call("Contains", Contains(t, actual, expected, args))
CallNotContains ==
  \E args \in ExtraArgs : Call("NotContains", NotContains(t, actual, expected, args))

Next ==
  \/ CallFail
  \/ CallFailNow
  \/ CallEqual
  \/ CallNotEqual
  \/ CallEqualValues
  \/ CallExactly
  \/ CallContains
  \/ CallNotContains

Spec == Init /\ [][Next]_vars

(***************************************************************************)
(* A second state machine, for the assertions on one value, on numbers,    *)
(* on patterns and on functions: True and False are given actual, InDelta  *)
(* expected, actual and delta, Match the pattern expected and the string   *)
(* actual, Panics the function actual.                                     *)
(***************************************************************************)
\* a value of the defined type `type B bool`
NamedTrue == Mk("bool", "main.B", 1, FALSE, <<>>, <<>>)

Numbers ==
  { IntV("int8", 1), IntV("int64", 5), IntV("uint8", 1), IntV("uint", 1),
    FloatV(2), FloatV(3), FloatV(5), NaNV }

NotNumbers == {NilV, StringV(<<>>), BoolV(TRUE), P1}

\* -1, 0, 0.5, 1, 4 and NaN
Deltas == {FloatV(-2), FloatV(0), FloatV(1), FloatV(2), FloatV(8), NaNV}

\* "", "a", "^b", "a$", ".", "(" and "a(", and two compiled patterns
Patterns ==
  { StringV(<<>>), StringV(<<97>>), StringV(<<94, 98>>), StringV(<<97, 36>>),
    StringV(<<46>>), StringV(<<40>>), StringV(<<97, 40>>),
    RegexpV(0, <<>>), RegexpV(1, <<98>>) }

\* "", "a", "ab", "b"
Subjects == {StringV(<<>>), StringV(<<97>>), StringV(<<97, 98>>), StringV(<<98>>)}

PanicTestFuncs == {FuncV(id) : id \in 0..3}

ValueInputs ==
  {<<NilV, v, FloatV(0)>> : v \in Values \cup {BoolV(FALSE), NamedTrue} \cup PanicTestFuncs}
    \cup ((Numbers \cup NotNumbers) \X (Numbers \cup NotNumbers) \X Deltas)
    \cup (Patterns \X Subjects \X {FloatV(0)})

InitValue ==
  /\ t \in Sinks
  /\ \E in \in ValueInputs : expected = in[1] /\ actual = in[2] /\ delta = in[3]
  /\ keyPath = <<>>
  /\ op = "none"
  /\ ret = "none"
  /\ calls = <<>>
  /\ invoked = 0
  /\ out = <<>>
  /\ routines = <<>>
  /\ loop = <<>>

CallTrue == \E args \in ExtraArgs : Call("True", True(t, actual, args))
CallFalse == \E args \in ExtraArgs : Call("False", False(t, actual, args))
CallInDelta ==
  \E args \in ExtraArgs : Call("InDelta", InDelta(t, expected, actual, delta, args))

\* the pattern and the string of the model are strings or compiled patterns
CallMatch ==
  /\ expected.k \in {"string", "regexp"} /\ actual.k = "string"
  /\ \E args \in ExtraArgs : Call("Match", Match(t, expected, actual, args))
CallNotMatch ==
  /\ expected.k \in {"string", "regexp"} /\ actual.k = "string"
  /\ \E args \in ExtraArgs : Call("NotMatch", NotMatch(t, expected, actual, args))

\* a PanicTestFunc is a func()
CallPanics ==
  /\ actual.k = "func"
  /\ \E args \in ExtraArgs :
        CallInvoking("Panics", Panics(t, actual, args), panicRecovery(actual).invoked)
CallNotPanics ==
  /\ actual.k = "func"
  /\ \E args \in ExtraArgs :
        CallInvoking("NotPanics", NotPanics(t, actual, args), panicRecovery(actual).invoked)

NextValue ==
  \/ CallTrue
  \/ CallFalse
  \/ CallInDelta
  \/ CallMatch
  \/ CallNotMatch
  \/ CallPanics
  \/ CallNotPanics

SpecValue == InitValue /\ [][NextValue]_vars
(***************************************************************************)
(* A third state machine, for the assertions on JSON documents: EqualJSON  *)
(* is given the documents expected and actual, ContainsJSON the document   *)
(* actual, the key path keyPath and the value expected, NotContainsJSON    *)
(* and NotEmptyJSON the document actual and the key path keyPath.          *)
(***************************************************************************)
\* {"a":{"b":[1,2,3]}}
DocNested ==
  StringV(<<123, 34, 97, 34, 58, 123, 34, 98, 34, 58, 91, 49, 44, 50, 44, 51,
            93, 125, 125>>)
\* {"hello": "world", "foo": ["foo", "bar"]}
DocHello ==
  StringV(<<123, 34, 104, 101, 108, 108, 111, 34, 58, 32, 34, 119, 111, 114,
            108, 100, 34, 44, 32, 34, 102, 111, 111, 34, 58, 32, 91, 34, 102,
            111, 111, 34, 44, 32, 34, 98, 97, 114, 34, 93, 125>>)
\* {"a":1}
DocA == StringV(<<123, 34, 97, 34, 58, 49, 125>>)
\* {"a":{"b":1}}
DocAB == StringV(<<123, 34, 97, 34, 58, 123, 34, 98, 34, 58, 49, 125, 125>>)
\* {"a.b":1,"a":{"b":2}}
DocDotted ==
  StringV(<<123, 34, 97, 46, 98, 34, 58, 49, 44, 34, 97, 34, 58, 123, 34, 98,
            34, 58, 50, 125, 125>>)
\* {"x.y":1}
DocDottedOnly == StringV(<<123, 34, 120, 46, 121, 34, 58, 49, 125>>)
\* {"a":[{"x":1},{"x":2}]}
DocObjects ==
  StringV(<<123, 34, 97, 34, 58, 91, 123, 34, 120, 34, 58, 49, 125, 44, 123,
            34, 120, 34, 58, 50, 125, 93, 125>>)
\* {"n":5,"f":1.5,"s":"5","p":null,"l":[5,257],"t":true,"w":"world"}
DocTypes ==
  StringV(<<123, 34, 110, 34, 58, 53, 44, 34, 102, 34, 58, 49, 46, 53, 44,
            34, 115, 34, 58, 34, 53, 34, 44, 34, 112, 34, 58, 110, 117, 108,
            108, 44, 34, 108, 34, 58, 91, 53, 44, 50, 53, 55, 93, 44, 34,
            116, 34, 58, 116, 114, 117, 101, 44, 34, 119, 34, 58, 34, 119,
            111, 114, 108, 100, 34, 125>>)
\* [1,2]
DocArray == StringV(<<91, 49, 44, 50, 93>>)
\* Not JSON
DocNotJSON == StringV(<<78, 111, 116, 32, 74, 83, 79, 78>>)
\* {"a":1,"b":2}
DocAThenB == StringV(<<123, 34, 97, 34, 58, 49, 44, 34, 98, 34, 58, 50, 125>>)
\* { "b" : 2 , "a" : 1.0 }
DocBThenA ==
  StringV(<<123, 32, 34, 98, 34, 32, 58, 32, 50, 32, 44, 32, 34, 97, 34, 32,
            58, 32, 49, 46, 48, 32, 125>>)
\* [2,1]
DocArrayReversed == StringV(<<91, 50, 44, 49, 93>>)
\* {"o":{"x":1,"y":[1,2]}}
DocDeep ==
  StringV(<<123, 34, 111, 34, 58, 123, 34, 120, 34, 58, 49, 44, 34, 121, 34,
            58, 91, 49, 44, 50, 93, 125, 125>>)
\* {"o":{"y":[1,2],"x":1}}
DocDeepReordered ==
  StringV(<<123, 34, 111, 34, 58, 123, 34, 121, 34, 58, 91, 49, 44, 50, 93,
            44, 34, 120, 34, 58, 49, 125, 125>>)
\* {"o":{"x":1,"y":[2,1]}}
DocDeepArrayReordered ==
  StringV(<<123, 34, 111, 34, 58, 123, 34, 120, 34, 58, 49, 44, 34, 121, 34,
            58, 91, 50, 44, 49, 93, 125, 125>>)
\* {"a":2,"a":1}
DocTwice == StringV(<<123, 34, 97, 34, 58, 50, 44, 34, 97, 34, 58, 49, 125>>)
\* {"a":1,}
DocTrailingComma == StringV(<<123, 34, 97, 34, 58, 49, 44, 125>>)
\* null
DocNull == StringV(<<110, 117, 108, 108>>)

PathDocs ==
  { DocNested, DocHello, DocA, DocAB,
    DocDotted, DocDottedOnly, DocObjects, DocTypes,
    DocArray, DocNotJSON }

EqualDocs ==
  { DocAThenB, DocBThenA, DocArrayReversed, DocDeep,
    DocDeepReordered, DocDeepArrayReordered, DocTwice, DocTrailingComma,
    DocNull, DocA, DocArray, DocNotJSON }

\* a.b.1, a.b, a, a.x, missing, foo.3, foo.1, hello, a.1.x, x.y,
\* n, f, s, p, l, t, w, 1, l.1
KeyPaths ==
  { <<97, 46, 98, 46, 49>>,
    <<97, 46, 98>>,
    <<97>>,
    <<97, 46, 120>>,
    <<109, 105, 115, 115, 105, 110, 103>>,
    <<102, 111, 111, 46, 51>>,
    <<102, 111, 111, 46, 49>>,
    <<104, 101, 108, 108, 111>>,
    <<97, 46, 49, 46, 120>>,
    <<120, 46, 121>>,
    <<110>>,
    <<102>>,
    <<115>>,
    <<112>>,
    <<108>>,
    <<116>>,
    <<119>>,
    <<49>>,
    <<108, 46, 49>> }

\* the values ContainsJSON looks for: "world", "bar", "5", the integers 5, 2
\* and 1, an unsigned 5, 1.5, the booleans, pointers to 5 and to "world", a
\* nil pointer, the slice [5, 257], the bytes of "world", nil and a func
JSONValues ==
  { StringV(<<119, 111, 114, 108, 100>>), StringV(<<98, 97, 114>>), StringV(<<53>>),
    IntV("int8", 5), IntV("int64", 2), IntV("int64", 1), IntV("uint8", 5),
    FloatV(3), BoolV(TRUE), BoolV(FALSE),
    P1, PtrV("*string", 11, StringV(<<119, 111, 114, 108, 100>>)), NilPtrV("*int64"),
    SliceV("[]int64", 6, <<IntV("int64", 5), IntV("int64", 257)>>),
    BytesV(<<119, 111, 114, 108, 100>>), NilV, FuncV(1) }

\* the key paths that select the values ContainsJSON is tried on:
\* n, f, s, p, l, t, w
ValueKeyPaths ==
  { <<110>>, <<102>>, <<115>>, <<112>>,
    <<108>>, <<116>>, <<119>> }

\* the strings looked for in the document of the examples, "world", "bar"
\* and "", at hello, foo.1 and foo.3
HelloValues ==
  {StringV(<<119, 111, 114, 108, 100>>), StringV(<<98, 97, 114>>), StringV(<<>>)}
HelloKeyPaths ==
  {<<104, 101, 108, 108, 111>>, <<102, 111, 111, 46, 49>>, <<102, 111, 111, 46, 51>>}

\* every document with every key path; the document with values of every
\* type with every value looked for; the document of the examples with the
\* strings looked for; pairs of documents
\* {"z":"abc","b":256}
DocInts ==
  StringV(<<123, 34, 122, 34, 58, 34, 97, 98, 99, 34, 44, 34, 98, 34, 58, 50,
            53, 54, 125>>)

\* the integers looked for in it, at z and b
IntValues == {IntV("int64", 0), IntV("int8", 0), IntV("int64", 256), IntV("int8", 5)}

JSONInputs ==
  ({StringV(<<53>>)} \X PathDocs \X KeyPaths)
    \cup (IntValues \X {DocInts} \X {<<122>>, <<98>>})
    \cup (JSONValues \X {DocTypes} \X ValueKeyPaths)
    \cup (HelloValues \X {DocHello} \X HelloKeyPaths)
    \cup (EqualDocs \X EqualDocs \X {<<>>})

InitJSON ==
  /\ t \in Sinks
  /\ \E in \in JSONInputs : expected = in[1] /\ actual = in[2] /\ keyPath = in[3]
  /\ delta = FloatV(0)
  /\ op = "none"
  /\ ret = "none"
  /\ calls = <<>>
  /\ invoked = 0
  /\ out = <<>>
  /\ routines = <<>>
  /\ loop = <<>>

\* the extra arguments of the assertions on JSON: none, a message
JSONArgs == {<<>>, <<StringV(<<109>>)>>}

\* expected and actual are strings
CallEqualJSON ==
  /\ expected.k = "string"
  /\ \E args \in JSONArgs : Call("EqualJSON", EqualJSON(t, expected, actual, args))
CallContainsJSON ==
  \E args \in JSONArgs :
     Call("ContainsJSON", ContainsJSON(t, actual, keyPath, expected, args))
CallNotContainsJSON ==
  \E args \in JSONArgs : Call("NotContainsJSON", NotContainsJSON(t, actual, keyPath, args))
CallNotEmptyJSON ==
  \E args \in JSONArgs : Call("NotEmptyJSON", NotEmptyJSON(t, actual, keyPath, args))

NextJSON ==
  \/ CallEqualJSON
  \/ CallContainsJSON
  \/ CallNotContainsJSON
  \/ CallNotEmptyJSON

SpecJSON == InitJSON /\ [][NextJSON]_vars

(***************************************************************************)
(* The loop of getJsonValue, one round at a time.  loop holds its local    *)
(* variables: the position pc ("loop", "done" after a break, "returned"),  *)
(* buf, jsonKey, data, err, and the number of rounds run.                  *)
(***************************************************************************)
\* the rounds after which the model stops counting
MaxRounds == 4

\* a faulty variant: the first key is not popped
RestUnpopped(parts) == parts[1] \o <<46>> \o parts[2]

\* jsonKey = parts[1]: the key of the next round
Rest(parts) == parts[2]

\* one round of the loop on the locals l
Round(l) ==
  With(Get(l.buf, l.jsonKey), LAMBDA raw :
    IF ~raw.err
    THEN [l EXCEPT !.pc = "done", !.buf = raw.data, !.data = raw.data, !.err = FALSE]
    ELSE With(SplitN(l.jsonKey), LAMBDA parts :
      With(Get(l.buf, parts[1]), LAMBDA got :
        IF ~got.err THEN
          IF Len(parts) # 2
          THEN [l EXCEPT !.pc = "done", !.buf = got.data, !.data = got.data, !.err = FALSE]
          ELSE [l EXCEPT !.buf = got.data, !.data = got.data, !.err = FALSE,
                         !.jsonKey = Rest(parts)]
        ELSE With(ParseInt(parts[1]), LAMBDA idx :
          IF idx.e THEN [l EXCEPT !.pc = "done", !.data = got.data, !.err = TRUE]
          ELSE With(ArrayEach(l.buf), LAMBDA each :
            IF each.err THEN [l EXCEPT !.pc = "done", !.data = got.data, !.err = TRUE]
            ELSE With(IF 0 <= idx.n /\ idx.n < Len(each.values)
                      THEN [l EXCEPT !.buf = each.values[idx.n + 1],
                                     !.data = each.values[idx.n + 1], !.err = FALSE]
                      ELSE [l EXCEPT !.data = got.data, !.err = FALSE], LAMBDA m :
              IF Len(parts) # 2 THEN [m EXCEPT !.pc = "done"]
              ELSE [m EXCEPT !.jsonKey = Rest(parts)]))))))

InitLoop ==
  /\ t \in Sinks
  /\ expected = NilV
  /\ actual \in PathDocs
  /\ keyPath \in KeyPaths
  /\ delta = FloatV(0)
  /\ op = "none"
  /\ ret = "none"
  /\ calls = <<>>
  /\ invoked = 0
  /\ out = <<>>
  /\ routines = <<>>
  /\ loop = [pc |-> "loop", buf |-> actual.str, jsonKey |-> keyPath,
             data |-> <<>>, err |-> FALSE, rounds |-> 0]

\* the body of the for statement, once
LoopRound ==
  /\ loop.pc = "loop"
  /\ loop.rounds < MaxRounds
  /\ loop' = [Round(loop) EXCEPT !.rounds = @ + 1]
  /\ UNCHANGED <<t, expected, actual, op, ret, calls, keyPath, delta, invoked, out, routines>>

\* if err != nil { return nil, err }; return data, nil
LoopReturn ==
  /\ loop.pc = "done"
  /\ loop' = [loop EXCEPT !.pc = "returned", !.data = IF loop.err THEN <<>> ELSE @]
  /\ UNCHANGED <<t, expected, actual, op, ret, calls, keyPath, delta, invoked, out, routines>>

NextLoop == LoopRound \/ LoopReturn

SpecLoop == InitLoop /\ [][NextLoop]_vars

(***************************************************************************)
(* A test function that calls the assertions on one value, on two slices   *)
(* and on readers.                                                         *)
(***************************************************************************)
\* the values Empty and NotEmpty are tried on: nil, the booleans, zero and
\* one of every numeric type, NaN, "", "0", nil and empty and filled slices,
\* maps and channels, times and pointers to them, pointers to other values,
\* a struct, an empty array and funcs
EmptyValues ==
  { NilV, BoolV(FALSE), BoolV(TRUE), FloatV(1), NaNV,
    Mk("float", "float32", 2, FALSE, <<>>, <<>>),
    StringV(<<>>), StringV(<<48>>),
    SliceV("[]int64", 0, <<>>), SliceV("[]int64", 1, <<>>),
    SliceV("[]int64", 2, <<IntV("int64", 0)>>),
    MapV("map[string]int64", 0, <<>>), MapV("map[string]int64", 1, <<>>), M(2, 0),
    ChanV(0, <<>>), ChanV(1, <<>>), ChanV(3, <<IntV("int64", 0)>>),
    TimeV(0, 0), TimeV(0, 1), TimeV(1, 0),
    PtrV("*time.Time", 12, TimeV(0, 0)), PtrV("*time.Time", 13, TimeV(1, 0)),
    NilPtrV("*time.Time"), NilPtrV("*int64"), NilPtrV("*string"),
    PtrV("**time.Time", 14, PtrV("*time.Time", 12, TimeV(0, 0))),
    PtrV("*int64", 15, IntV("int64", 0)), PtrV("*string", 16, StringV(<<>>)), P1,
    StructV("main.U", <<FloatV(0)>>), ArrayV("[0]int64", <<>>),
    FuncV(0), FuncV(1) }
    \cup numericZeros
    \cup {[z EXCEPT !.n = 1] : z \in numericZeros}

\* the values diffValues is tried on: nil, "", "a" and "b", 5 as an int8 and
\* as an int64, slices and arrays
DiffValues ==
  { NilV, StringV(<<>>), StringV(<<97>>), StringV(<<98>>),
    IntV("int8", 5), IntV("int64", 5),
    SliceV("[]int64", 0, <<>>), SliceV("[]int64", 2, <<IntV("int64", 5)>>),
    SliceV("[]int64", 3, <<IntV("int64", 5)>>),
    SliceV("[]int64", 6, <<IntV("int64", 5), IntV("int64", 257)>>),
    ArrayV("[1]float64", <<FloatV(2)>>), ArrayV("[1]float64", <<FloatV(3)>>) }

\* the slices InDeltaSlice is tried on: []float64{}, {1}, {1, 2}, {0, 3},
\* {1, 2, 3}, {1, NaN}, a nil slice, []string{""}, and values that are no slices
DeltaSlices ==
  { SliceV("[]float64", 21, <<>>),
    SliceV("[]float64", 22, <<FloatV(2)>>),
    SliceV("[]float64", 23, <<FloatV(2), FloatV(4)>>),
    SliceV("[]float64", 24, <<FloatV(0), FloatV(6)>>),
    SliceV("[]float64", 25, <<FloatV(2), FloatV(4), FloatV(6)>>),
    SliceV("[]float64", 26, <<FloatV(2), NaNV>>),
    SliceV("[]float64", 0, <<>>),
    SliceV("[]string", 27, <<StringV(<<>>)>>),
    StringV(<<>>), NilV, ArrayV("[1]float64", <<FloatV(2)>>) }

OtherInputs ==
  {<<NilV, v, FloatV(0)>> : v \in EmptyValues}
    \cup (DiffValues \X DiffValues \X {FloatV(0)})
    \cup (DeltaSlices \X DeltaSlices \X {FloatV(0), FloatV(2)})

InitOther ==
  /\ t \in Sinks
  /\ \E in \in OtherInputs : expected = in[1] /\ actual = in[2] /\ delta = in[3]
  /\ keyPath = <<>>
  /\ op = "none"
  /\ ret = "none"
  /\ calls = <<>>
  /\ invoked = 0
  /\ out = <<>>
  /\ routines = <<>>
  /\ loop = <<>>

CallEmpty == \E args \in ExtraArgs : Call("Empty", Empty(t, actual, args))
CallNotEmpty == \E args \in ExtraArgs : Call("NotEmpty", NotEmpty(t, actual, args))

\* diffValues is called on the two values and its result kept
CallDiffValues ==
  /\ op' = "diffValues"
  /\ out' = diffValues(expected, actual)
  /\ ret' = "none"
  /\ calls' = <<>>
  /\ invoked' = 0
  /\ UNCHANGED <<t, expected, actual, keyPath, delta, routines, loop>>

CallInDeltaSlice ==
  \E args \in ExtraArgs :
    Call("InDeltaSlice", InDeltaSlice(t, expected, actual, delta, args))

NextOther ==
  \/ CallEmpty
  \/ CallNotEmpty
  \/ CallDiffValues
  \/ CallInDeltaSlice

SpecOther == InitOther /\ [][NextOther]_vars

(***************************************************************************)
(* diffValues run by several goroutines at the same time, as TestDiffRace  *)
(* does.  Every goroutine goes through diffValues and diffColorize one     *)
(* statement at a time:                                                    *)
(*   "start"  the values are formatted and their texts are diffed          *)
(*   "color"  the colour of the painter is set for line i                  *)
(*   "paint"  line i is painted and replaced                               *)
(*   "join"   the lines are joined and returned                            *)
(*   "done"                                                                *)
(***************************************************************************)
\* the goroutines that TestDiffRace starts
NumRoutines == 2

\* a faulty variant: one painter of the package serves every goroutine
PainterShared(g) == 1

\* the painter a goroutine paints with is a local variable of its own call
\* of diffColorize
Painter(g) == g

\* the pairs the goroutines diff: the same pair, or pairs of their own
RaceInputs ==
  { <<StringV(<<97>>), StringV(<<98>>)>>,
    <<NilV, NilV>>,
    <<IntV("int8", 5), IntV("int64", 5)>>,
    <<SliceV("[]int64", 2, <<IntV("int64", 5)>>),
      SliceV("[]int64", 6, <<IntV("int64", 5), IntV("int64", 257)>>)>> }

InitRace ==
  /\ t \in Sinks
  /\ expected = NilV
  /\ actual = NilV
  /\ delta = FloatV(0)
  /\ keyPath = <<>>
  /\ op = "none"
  /\ ret = "none"
  /\ calls = <<>>
  /\ invoked = 0
  /\ out = <<>>
  /\ \E ins \in [1..NumRoutines -> RaceInputs] :
        routines = [g \in 1..NumRoutines |->
                      [pc |-> "start", e |-> ins[g][1], a |-> ins[g][2],
                       lines |-> <<>>, i |-> 0, paint |-> "none", result |-> <<>>]]
  /\ loop = <<>>

\* expectStr, actualStr := prettifyValues(...); diffs, err := difflib...;
\* without a diff the result is that of pretty.Diff, with one diffColorize
\* makes its painter and splits the diff into lines
StartDiff(g) ==
  /\ routines[g].pc = "start"
  /\ LET r == routines[g]
         s == prettifyValues(r.e, r.a)
         diffs == GetUnifiedDiffString(s.es, s.as)
     IN  IF Len(diffs) = 0
         THEN routines' =
                [routines EXCEPT ![g].pc = "done",
                                 ![g].result =
                                   IF Len(prettyDiff(r.e, r.a)) = 0 THEN <<>>
                                   ELSE Framed([i \in 1..Len(prettyDiff(r.e, r.a)) |->
                                                  [fg |-> "none",
                                                   line |-> prettyDiff(r.e, r.a)[i]]])]
         ELSE routines' =
                [routines EXCEPT ![g].pc = "color",
                                 ![g].lines = Append(diffs, <<>>),
                                 ![g].i = 1,
                                 ![Painter(g)].paint = "yellow"]

\* paint.SetFgColor(...)
SetFgColor(g) ==
  /\ routines[g].pc = "color"
  /\ routines' =
       [routines EXCEPT ![g].pc = "paint",
                        ![Painter(g)].paint = LineColor(routines[g].lines[routines[g].i])]

\* lines[i] = paint.Paint(line)
Paint(g) ==
  /\ routines[g].pc = "paint"
  /\ LET r == routines[g]
     IN  routines' =
           [routines EXCEPT ![g].lines[r.i] =
                              [fg |-> routines[Painter(g)].paint, line |-> r.lines[r.i]],
                            ![g].i = r.i + 1,
                            ![g].pc = IF r.i = Len(r.lines) THEN "join" ELSE "color"]

\* return fmt.Sprintf("\n\n%s\n", strings.Join(lines, "\n"))
Join(g) ==
  /\ routines[g].pc = "join"
  /\ routines' = [routines EXCEPT ![g].pc = "done",
                                  ![g].result = Framed(routines[g].lines)]

NextRace ==
  \E g \in 1..NumRoutines :
    /\ \/ StartDiff(g)
       \/ SetFgColor(g)
       \/ Paint(g)
       \/ Join(g)
    /\ UNCHANGED <<t, expected, actual, op, ret, calls, keyPath, delta, invoked, out, loop>>

SpecRace == InitRace /\ [][NextRace]_vars

(***************************************************************************)
(* ReaderContains and ReaderNotContains.  A reader is a value of kind      *)
(* "reader" whose str is the content not yet read:                         *)
(*   *strings.Reader   has Read and no Write                               *)
(*   *bytes.Buffer     has Read and Write; Write appends to the content    *)
(*   *main.failing     has Read and Write, and Read fails                  *)
(***************************************************************************)
ReaderV(ty, content) == Mk("reader", ty, 0, FALSE, content, <<>>)

\* w, ok := reader.(io.Writer)
IsWriter(reader) == reader.t \in {"*bytes.Buffer", "*main.failing"}

\* io.ReadAll(reader): the bytes read, the reader afterwards, whether it failed
ReadAll(reader) ==
  IF reader.t = "*main.failing"
  THEN [data |-> <<>>, reader |-> reader, err |-> TRUE]
  ELSE [data |-> reader.str, reader |-> [reader EXCEPT !.str = <<>>], err |-> FALSE]

\* w.Write(data)
Write(reader, data) == [reader EXCEPT !.str = @ \o data]

\* a faulty variant: what was read is not written back
ReaderContainsConsuming(sink, reader, contains, args) ==
  IF ~IsWriter(reader)
  THEN {[t |-> Fail(sink, args).t, ret |-> "false", reader |-> reader]}
  ELSE LET read == ReadAll(reader)
       IN  IF read.err
           THEN {[t |-> Fail(sink, args).t, ret |-> "false", reader |-> read.reader]}
           ELSE {[t |-> o.t, ret |-> o.ret, reader |-> read.reader] :
                   o \in Contains(sink, StringV(read.data), contains, args)}

\* ReaderContains(t, reader, contains, formatAndArgs...): the outcomes, each
\* with the reader afterwards
ReaderContains(sink, reader, contains, args) ==
  IF ~IsWriter(reader)
  THEN {[t |-> Fail(sink, args).t, ret |-> "false", reader |-> reader]}
  ELSE LET read == ReadAll(reader)
       IN  IF read.err
           THEN {[t |-> Fail(sink, args).t, ret |-> "false", reader |-> read.reader]}
           ELSE {[t |-> o.t, ret |-> o.ret, reader |-> Write(read.reader, read.data)] :
                   o \in Contains(sink, StringV(read.data), contains, args)}

ReaderNotContains(sink, reader, contains, args) ==
  IF ~IsWriter(reader)
  THEN {[t |-> Fail(sink, args).t, ret |-> "false", reader |-> reader]}
  ELSE LET read == ReadAll(reader)
       IN  IF read.err
           THEN {[t |-> Fail(sink, args).t, ret |-> "false", reader |-> read.reader]}
           ELSE {[t |-> o.t, ret |-> o.ret, reader |-> Write(read.reader, read.data)] :
                   o \in NotContains(sink, StringV(read.data), contains, args)}

HelloWorld == <<72, 101, 108, 108, 111, 44, 32, 87, 111, 114, 108, 100>>
Hello == <<72, 101, 108, 108, 111>>
Salut == <<83, 97, 108, 117, 116>>

Readers ==
  {ReaderV(ty, c) : ty \in {"*strings.Reader", "*bytes.Buffer", "*main.failing"},
                    c \in {HelloWorld, Salut, <<>>}}

InitReader ==
  /\ t \in Sinks
  /\ expected \in {StringV(Hello), StringV(Salut), StringV(<<>>)}
  /\ actual \in Readers
  /\ delta = FloatV(0)
  /\ keyPath = <<>>
  /\ op = "none"
  /\ ret = "none"
  /\ calls = <<>>
  /\ invoked = 0
  /\ out = <<>>
  /\ routines = <<>>
  /\ loop = <<>>

\* an assertion on the reader held in actual, which it may change
CallOnReader(name, outcomes) ==
  /\ Len(t.log) + 2 <= MaxLog
  /\ \E r \in outcomes :
        /\ t' = r.t
        /\ ret' = r.ret
        /\ calls' = Called(t, r.t)
        /\ actual' = r.reader
  /\ op' = name
  /\ invoked' = 0
  /\ UNCHANGED <<expected, keyPath, delta, out, routines, loop>>

CallReaderContains ==
  \E args \in ExtraArgs :
    CallOnReader("ReaderContains", ReaderContains(t, actual, expected, args))

CallReaderNotContains ==
  \E args \in ExtraArgs :
    CallOnReader("ReaderNotContains", ReaderNotContains(t, actual, expected, args))

NextReader == \/ CallReaderContains \/ CallReaderNotContains

SpecReader == InitReader /\ [][NextReader]_vars

(***************************************************************************)
(* A test function that calls every assertion of the package.              *)
(***************************************************************************)
AllValues ==
  { NilV, BoolV(TRUE), IntV("int64", 0), IntV("int8", 5), NaNV, FloatV(2),
    StringV(<<97>>), P1, NilPtrV("*int64"),
    SliceV("[]int64", 2, <<IntV("int64", 5)>>),
    SliceV("[]float64", 22, <<FloatV(2)>>),
    SliceV("[]float64", 23, <<FloatV(2), FloatV(4)>>),
    M(1, 5), FuncV(1), FuncV(2),
    ErrorV(31, <<97>>), ErrorV(32, <<98>>) }

AllInputs ==
  (AllValues \X AllValues \X {<<>>})
    \cup ({StringV(<<53>>), IntV("int64", 0), IntV("int8", 5), BoolV(TRUE), NilV, P1}
            \X {DocTypes, DocInts, DocHello, DocNotJSON}
            \X {<<110>>, <<122>>, <<102, 111, 111, 46, 51>>})
    \cup ({DocAThenB, DocBThenA, DocTrailingComma} \X {DocAThenB, DocArray} \X {<<>>})
    \cup ({StringV(<<97, 36>>), StringV(<<40>>), RegexpV(1, <<98>>)}
            \X {StringV(<<97>>), StringV(<<98>>)} \X {<<>>})

InitAll ==
  /\ t \in Sinks
  /\ \E in \in AllInputs : expected = in[1] /\ actual = in[2] /\ keyPath = in[3]
  /\ delta = FloatV(2)
  /\ op = "none"
  /\ ret = "none"
  /\ calls = <<>>
  /\ invoked = 0
  /\ out = <<>>
  /\ routines = <<>>
  /\ loop = <<>>

CallNil == \E args \in JSONArgs : Call("Nil", Nil(t, actual, args))
CallNotNil == \E args \in JSONArgs : Call("NotNil", NotNil(t, actual, args))
CallZero == \E args \in JSONArgs : Call("Zero", Zero(t, actual, args))
CallNotZero == \E args \in JSONArgs : Call("NotZero", NotZero(t, actual, args))
CallLen ==
  \E length \in 0..MaxLen, args \in JSONArgs :
    Call("Len", AssertLen(t, actual, length, args))
CallIsError == \E args \in JSONArgs : Call("IsError", IsError(t, actual, args))
CallNotError == \E args \in JSONArgs : Call("NotError", NotError(t, actual, args))
CallEqualErrors ==
  \E args \in JSONArgs : Call("EqualErrors", EqualErrors(t, expected, actual, args))

\* the documents and key paths of the assertions on JSON are Go strings
NextAll ==
  \/ CallEqual
  \/ CallNotEqual
  \/ CallEqualValues
  \/ CallExactly
  \/ CallNil
  \/ CallNotNil
  \/ CallZero
  \/ CallNotZero
  \/ CallTrue
  \/ CallFalse
  \/ CallEmpty
  \/ CallContains
  \/ CallNotContains
  \/ CallMatch
  \/ CallLen
  \/ CallIsError
  \/ CallNotError
  \/ CallEqualErrors
  \/ CallPanics
  \/ CallInDelta
  \/ CallInDeltaSlice
  \/ (actual.k = "string" /\ CallEqualJSON)
  \/ (actual.k = "string" /\ CallContainsJSON)
  \/ (actual.k = "string" /\ CallNotContainsJSON)
  \/ (actual.k = "string" /\ CallNotEmptyJSON)

SpecAll == InitAll /\ [][NextAll]_vars

(***************************************************************************)
(* Properties.                                                             *)
(***************************************************************************)

\* C1: Fail returns false for every input and calls the sink's Errorf exactly
\* once per invocation; it invokes no other operation of the sink.
FailReportsOnce == op = "Fail" => ret = "false" /\ calls = <<"Errorf">>

FailReportsOnceWitness ==
  /\ op = "Fail"
  /\ ret = "false"
  /\ Len(t.log) >= 2
  /\ t.log[Len(t.log)].labels = <<"Trace", "Error", "Messages">>

\* C2: FailNow first reports through Errorf and then escalates: a sink with
\* FailNow() has that method invoked exactly once, no panic is raised and the
\* result is false; a sink without FailNow() makes FailNow panic after the
\* report, never a plain failure.
FailNowEscalates ==
  op = "FailNow" =>
    IF t.failNower
    THEN calls = <<"Errorf", "FailNow">> /\ ret = "false"
    ELSE calls = <<"Errorf">> /\ ret = "panic"

FailNowEscalatesWitness ==
  op = "FailNow" /\ ~t.failNower /\ ret = "panic" /\ calls = <<"Errorf">>

\* C3: Equal compares two non-nil pointers of the same type by the values they
\* point to and not by address: two distinct pointers are equal iff their
\* pointees are deep-equal.
DistinctPointers(x, y) ==
  /\ x.k = "ptr" /\ y.k = "ptr"
  /\ x.t = y.t
  /\ ~IsNil(x) /\ ~IsNil(y)
  /\ x.n # y.n

PointersByValue ==
  (op = "Equal" /\ DistinctPointers(expected, actual)) =>
    (ret = "true" <=> AreEqualObjects(Elem(expected), Elem(actual)))

PointersByValueWitness ==
  /\ op = "Equal"
  /\ DistinctPointers(expected, actual)
  /\ Elem(expected).k = "ptr"
  /\ ret = "true"

\* C4: Exactly succeeds iff the runtime types of expected and actual are
\* identical and AreEqualObjects holds; when the types differ it fails whatever
\* the values.
ExactlyTypeAndValue ==
  op = "Exactly" =>
    (ret = "true" <=>
       TypeOf(expected) = TypeOf(actual) /\ AreEqualObjects(expected, actual))

ExactlyTypeAndValueWitness ==
  /\ op = "Exactly"
  /\ TypeOf(expected) # TypeOf(actual)
  /\ "true" \in AreEqualValues(expected, actual)
  /\ ret = "false"

\* the mathematical value of a number, in halves
Halves(v) == IF v.k = "int" THEN 2 * v.n ELSE v.n
IsNumber(v) == v.k \in {"int", "float"}
SameNumber(x, y) == ~x.nan /\ ~y.nan /\ Halves(x) = Halves(y)

\* C5: EqualValues never succeeds by way of a lossy numeric conversion: for
\* numbers of different types whose mathematical values differ the result is
\* false.
NoLossyConversion ==
  ( /\ op = "EqualValues"
    /\ IsNumber(expected) /\ IsNumber(actual)
    /\ expected.t # actual.t
    /\ ~SameNumber(expected, actual) ) => ret = "false"

\* a pointer p and a plain number v of another type than the pointee, with
\* the pointee equal to v in value
PointerToEqualValue(p, v) ==
  /\ p.k = "ptr" /\ ~IsNil(p)
  /\ IsNumber(Elem(p)) /\ IsNumber(v)
  /\ Elem(p).t # v.t
  /\ SameNumber(Elem(p), v)

\* C6: AreEqualValues dereferences pointers on both sides: for a plain value v
\* and a pointer p to a value equal to v after conversion, both
\* AreEqualValues(p, v) and AreEqualValues(v, p) are true.
DereferencesBothSides ==
  ( /\ op = "EqualValues"
    /\ \/ PointerToEqualValue(expected, actual)
       \/ PointerToEqualValue(actual, expected) ) => ret = "true"

\* C7: AreEqualObjects is symmetric: the result on (expected, actual) is the
\* result on (actual, expected), nil on either side included.
EqualSymmetric ==
  op = "Equal" => (ret = "true" <=> AreEqualObjects(actual, expected))

EqualSymmetricWitness ==
  /\ op = "Equal"
  /\ IsNilInterface(expected) /\ ~IsNilInterface(actual)
  /\ ret = "false"

\* C8, as claimed: AreEqualObjects(a, a) is true for every value a of any
\* kind, the only exception being a float NaN.
EqualReflexive ==
  ( /\ op = "Equal"
    /\ expected = actual
    /\ ~(expected.k = "float" /\ expected.nan) ) => ret = "true"

\* a float or complex NaN or a non-nil func, or an array or struct that
\* holds one
RECURSIVE SelfUnequal(_)
SelfUnequal(v) ==
  \/ v.k \in {"float", "complex"} /\ v.nan
  \/ v.k = "func" /\ ~IsNil(v)
  \/ v.k \in {"array", "struct"} /\ \E i \in 1..Len(v.es) : SelfUnequal(v.es[i])

\* C8, amended: AreEqualObjects(a, a) is true for every value a except a
\* float or complex NaN, a non-nil func, and an array or struct that holds
\* one of these in an element or field, directly or through nested arrays
\* and structs; for those it is false.
EqualReflexiveExceptSelfUnequal ==
  (op = "Equal" /\ expected = actual) =>
    (ret = "true" <=> ~SelfUnequal(expected))

EqualReflexiveWitness ==
  /\ op = "Equal"
  /\ expected = actual
  /\ expected.k = "func" /\ ~IsNil(expected)
  /\ ret = "false"

\* some index i has AreEqualObjects(s[i], e)
SomeIndexEqual(s, e) == \E i \in 1..Len(s.es) : AreEqualObjects(s.es[i], e)

\* C9: for a slice or array s, containsElement(s, e) is applicable and found
\* iff some index i has AreEqualObjects(s[i], e); Contains succeeds iff such
\* an index exists and NotContains iff none exists.
ContainsInSequence ==
  actual.k \in {"slice", "array"} =>
    /\ op = "Contains" => (ret = "true" <=> SomeIndexEqual(actual, expected))
    /\ op = "NotContains" => (ret = "true" <=> ~SomeIndexEqual(actual, expected))

ContainsInSequenceWitness ==
  /\ op = "Contains"
  /\ actual.k = "slice"
  /\ Len(actual.es) >= 2
  /\ AreEqualObjects(actual.es[Len(actual.es)], expected)
  /\ \A i \in 1..(Len(actual.es) - 1) : ~AreEqualObjects(actual.es[i], expected)
  /\ ret = "true"

\* the name part of a json tag: what precedes the first comma
RECURSIVE TagName(_)
TagName(tag) ==
  IF tag = <<>> \/ Head(tag) = 44 THEN <<>> ELSE <<Head(tag)>> \o TagName(Tail(tag))

\* the name encoding/json gives a field: the name of its tag, else its own
JSONName(field) == IF TagName(field.Tag) # <<>> THEN TagName(field.Tag) ELSE field.Name

\* C10: for a struct or a pointer to one, containsElement is applicable and
\* found iff the element equals the name of some exported field, a field with
\* a JSON tag being matched by its JSON tag name instead of its Go name;
\* unexported fields never match.
ContainsFieldByJSONName ==
  (op = "Contains" /\ Indirect(actual).k = "struct") =>
    (ret = "true" <=>
       \E i \in 1..Len(StructFields(Indirect(actual).t)) :
          LET field == StructFields(Indirect(actual).t)[i]
          IN  field.Exported /\ expected = StringV(JSONName(field)))

\* the values whose Len panics: the nil interface, a nil pointer, numbers,
\* booleans and functions, behind any number of pointers
NotAContainer(v) == Indirect(v).k \in {"nil", "bool", "int", "float", "complex", "func"}

\* C11: containsElement never panics, whatever the container and the element;
\* for a scalar, a function or a nil container it is not applicable and finds
\* nothing, and then Contains and NotContains both return false with one
\* failure report.
ContainsNeverPanics ==
  op \in {"Contains", "NotContains"} =>
    /\ ret # "panic"
    /\ NotAContainer(actual) =>
         /\ containsElement(actual, expected) = [ok |-> FALSE, found |-> FALSE]
         /\ ret = "false"
         /\ calls = <<"Errorf">>

ContainsNeverPanicsWitness ==
  /\ op = "NotContains"
  /\ actual.k = "func"
  /\ ret = "false"
  /\ calls = <<"Errorf">>
\* the value that one segment of a key path selects in a node: the member of
\* that name of an object, else the element of that index of an array
Step(node, seg) ==
  LET i == MemberIndex(node.es, seg, 1)
      n == ParseInt(seg)
  IN  IF node.k = "jobject" /\ i # 0 THEN [found |-> TRUE, v |-> node.es[i].es[2]]
      ELSE IF node.k = "jarray" /\ ~n.e /\ 0 <= n.n /\ n.n < Len(node.es)
        THEN [found |-> TRUE, v |-> node.es[n.n + 1]]
      ELSE [found |-> FALSE, v |-> NilV]

\* the value a key path selects when it is walked segment by segment
RECURSIVE WalkSegments(_, _)
WalkSegments(node, path) ==
  With(Step(node, SplitN(path)[1]), LAMBDA next :
    IF ~next.found \/ Len(SplitN(path)) = 1 THEN next
    ELSE WalkSegments(next.v, SplitN(path)[2]))

\* the same walk, except that a rest of the path that is, dots and all, the
\* name of a member of the value reached selects that member
RECURSIVE WalkRawFirst(_, _)
WalkRawFirst(node, path) ==
  IF node.k = "jobject" /\ MemberIndex(node.es, path, 1) # 0
  THEN [found |-> TRUE, v |-> node.es[MemberIndex(node.es, path, 1)].es[2]]
  ELSE With(Step(node, SplitN(path)[1]), LAMBDA next :
    IF ~next.found \/ Len(SplitN(path)) = 1 THEN next
    ELSE WalkRawFirst(next.v, SplitN(path)[2]))

\* the document under test, parsed; the nil value when it is no JSON
Root == Parse(actual.str).v

JSONOps == {"ContainsJSON", "NotContainsJSON", "NotEmptyJSON"}

\* C12: getJsonValue walks the dotted path from left to right, each segment
\* looked up as a key of the current object first and as a zero-based index of
\* the current array if that fails, each next segment inside the value
\* selected; the raw text of the value selected last is returned, with no
\* error.
WalksSegments ==
  op \in JSONOps =>
    With(With(Root, LAMBDA root : WalkSegments(root, keyPath)), LAMBDA walk :
      walk.found =>
        getJsonValue(actual.str, keyPath) = [err |-> FALSE, data |-> walk.v.str])

\* C12, amended: at every step getJsonValue first looks up the whole rest of
\* the path as one key of the current object and returns that member if there
\* is one; otherwise it looks up the first segment as a key, then as a
\* zero-based index of the current array, and goes on with the next segment
\* inside the value selected; the raw text of the value selected last is
\* returned, with no error.
WalksRawFirst ==
  op \in JSONOps =>
    With(With(Root, LAMBDA root : WalkRawFirst(root, keyPath)), LAMBDA walk :
      walk.found =>
        getJsonValue(actual.str, keyPath) = [err |-> FALSE, data |-> walk.v.str])

\* a.1.x in {"a":[{"x":1},{"x":2}]} is 2
WalksRawFirstWitness ==
  /\ op = "NotContainsJSON"
  /\ actual = DocObjects
  /\ keyPath = <<97, 46, 49, 46, 120>>
  /\ getJsonValue(actual.str, keyPath) = [err |-> FALSE, data |-> <<50>>]
  /\ ret = "false"

\* the walk by segments reaches a segment that is no key of the current
\* object and no integer
RECURSIVE StuckSegments(_, _)
StuckSegments(node, path) ==
  With(SplitN(path), LAMBDA parts :
    With(Step(node, parts[1]), LAMBDA next :
      IF node.k = "jobject" /\ MemberIndex(node.es, parts[1], 1) # 0
        THEN Len(parts) = 2 /\ StuckSegments(next.v, parts[2])
      ELSE IF ParseInt(parts[1]).e THEN TRUE
      ELSE next.found /\ Len(parts) = 2 /\ StuckSegments(next.v, parts[2])))

\* the same, when the rest of the path is looked up as one key before its
\* first segment is
RECURSIVE StuckRawFirst(_, _)
StuckRawFirst(node, path) ==
  With(SplitN(path), LAMBDA parts :
    With(Step(node, parts[1]), LAMBDA next :
      IF node.k = "jobject" /\ MemberIndex(node.es, path, 1) # 0 THEN FALSE
      ELSE IF node.k = "jobject" /\ MemberIndex(node.es, parts[1], 1) # 0
        THEN Len(parts) = 2 /\ StuckRawFirst(next.v, parts[2])
      ELSE IF ParseInt(parts[1]).e THEN TRUE
      ELSE next.found /\ Len(parts) = 2 /\ StuckRawFirst(next.v, parts[2])))

\* getJsonValue has an error and no data, NotContainsJSON succeeds,
\* ContainsJSON and NotEmptyJSON fail with one report
NothingFound ==
  /\ getJsonValue(actual.str, keyPath) = [err |-> TRUE, data |-> <<>>]
  /\ op = "NotContainsJSON" => ret = "true" /\ calls = <<>>
  /\ op \in {"ContainsJSON", "NotEmptyJSON"} => ret = "false" /\ calls = <<"Errorf">>

\* C13: getJsonValue returns an error and no data when a segment of the path
\* is neither a key of the current object nor an integer; NotContainsJSON then
\* succeeds, ContainsJSON and NotEmptyJSON fail with a report.
ErrorOnUnknownSegment ==
  (op \in JSONOps /\ With(Root, LAMBDA root : StuckSegments(root, keyPath))) => NothingFound

\* C13, amended: getJsonValue returns an error and no data when the walk
\* reaches a segment that is neither a key of the current object nor an
\* integer, and the rest of the path from that segment on is not, dots and
\* all, a key of the current object either; NotContainsJSON then succeeds,
\* ContainsJSON and NotEmptyJSON fail with a report.
ErrorOnUnknownRest ==
  (op \in JSONOps /\ With(Root, LAMBDA root : StuckRawFirst(root, keyPath))) => NothingFound

\* a.x in {"a":{"b":1}}
ErrorOnUnknownRestWitness ==
  /\ op = "NotContainsJSON"
  /\ actual = DocAB
  /\ keyPath = <<97, 46, 120>>
  /\ With(Root, LAMBDA root : StuckRawFirst(root, keyPath))
  /\ ret = "true"

\* the path leads to an array and ends in an index at or beyond its length
RECURSIVE IndexBeyondLength(_, _)
IndexBeyondLength(node, path) ==
  With(SplitN(path), LAMBDA parts :
    IF Len(parts) = 1
    THEN node.k = "jarray" /\ ~ParseInt(parts[1]).e
           /\ ParseInt(parts[1]).n >= Len(node.es)
    ELSE With(Step(node, parts[1]), LAMBDA next :
      next.found /\ IndexBeyondLength(next.v, parts[2])))

\* C14: NotContainsJSON succeeds when the key path ends in an array index at
\* or beyond the length of the array: getJsonValue reports an index out of
\* range as not found.
IndexOutOfRangeNotFound ==
  (op = "NotContainsJSON" /\ With(Root, LAMBDA root : IndexBeyondLength(root, keyPath))) =>
    ret = "true" /\ getJsonValue(actual.str, keyPath).err

\* the JSON text of a node, as encoding/json writes the value it decodes to
Canonical(node) == Marshal(Decode(node, 3)).text

\* the value at the key is the expected value: its bytes for a []byte, else
\* the JSON encoding of the expected value
JSONValueEquals(node, value) ==
  IF value.t = "[]uint8"
  THEN node.str = [i \in 1..Len(value.es) |-> value.es[i].n]
  ELSE ~Marshal(value).err /\ Canonical(node) = Marshal(value).text

\* C15: ContainsJSON returns true whenever the JSON value at the key equals
\* the expected value, for a string, a []byte, a signed integer, a float, a
\* bool, and for a pointer, slice, array or struct whose JSON encoding equals
\* the JSON value at the key.
ContainsEqualValue ==
  ( /\ op = "ContainsJSON"
    /\ \/ expected.t \in {"string", "[]uint8", "int8", "int64", "float64", "bool"}
       \/ expected.k \in {"ptr", "slice", "array", "struct"}
    /\ With(With(Root, LAMBDA root : WalkRawFirst(root, keyPath)), LAMBDA walk :
         walk.found /\ JSONValueEquals(walk.v, expected)) ) =>
    ret = "true"

\* two JSON values are the same value: objects have the same keys with the
\* same values, whatever the order of the members (the last member of a key
\* counts); arrays have the same elements in the same order
RECURSIVE SameJSON(_, _)
SameJSON(x, y) ==
  /\ x.k = y.k
  /\ CASE x.k = "jobject" ->
            /\ \A i \in 1..Len(x.es) : MemberIndex(y.es, x.es[i].es[1].str, 1) # 0
            /\ \A j \in 1..Len(y.es) : MemberIndex(x.es, y.es[j].es[1].str, 1) # 0
            /\ \A i \in 1..Len(x.es) : \A j \in 1..Len(y.es) :
                  ( /\ x.es[i].es[1] = y.es[j].es[1]
                    /\ \A i2 \in (i + 1)..Len(x.es) : x.es[i2].es[1] # x.es[i].es[1]
                    /\ \A j2 \in (j + 1)..Len(y.es) : y.es[j2].es[1] # y.es[j].es[1] )
                  => SameJSON(x.es[i].es[2], y.es[j].es[2])
       [] x.k = "jarray" ->
            /\ Len(x.es) = Len(y.es)
            /\ \A i \in 1..Len(x.es) : SameJSON(x.es[i], y.es[i])
       [] x.k = "jnumber" -> NumberHalves(x.str) = NumberHalves(y.str)
       [] OTHER -> x.str = y.str

\* C16: EqualJSON succeeds iff both strings are valid JSON and decode to
\* deep-equal values: the order of the members of an object does not count,
\* at any depth, the order of the elements of an array does; a string that
\* is no valid JSON makes it return false with one report, without a panic.
EqualJSONIffSameValue ==
  op = "EqualJSON" =>
    /\ ret \in {"true", "false"}
    /\ With(Parse(expected.str), LAMBDA e :
         With(Parse(actual.str), LAMBDA a :
           /\ ret = "true" <=> (e.ok /\ a.ok /\ SameJSON(e.v, a.v))
           /\ (~e.ok \/ ~a.ok) => ret = "false" /\ calls = <<"Errorf">>))

EqualJSONIffSameValueWitness ==
  /\ op = "EqualJSON"
  /\ expected = DocDeep
  /\ actual = DocDeepReordered
  /\ ret = "true"
\* C17: InDelta with numeric operands succeeds iff |expected - actual| <=
\* delta, the boundary included, hence never for a negative delta; it
\* succeeds when both operands are NaN, fails when exactly one is, and fails
\* with a report when an operand is not numeric.
InDeltaIffWithinDelta ==
  op = "InDelta" =>
    IF IsNumber(expected) /\ IsNumber(actual)
    THEN IF expected.nan \/ actual.nan
         THEN ret = "true" <=> (expected.nan /\ actual.nan)
         ELSE ret = "true" <=>
                LET d == Halves(expected) - Halves(actual)
                IN  ~delta.nan /\ -delta.n <= d /\ d <= delta.n
    ELSE ret = "false" /\ calls = <<"Errorf">>

\* C18: a pattern that does not compile makes Match and NotMatch alike fail
\* in the normal way: the result is false, Fail reports once, nothing panics.
BadPatternFails ==
  (op \in {"Match", "NotMatch"} /\ expected.k = "string" /\ ~Compiles(expected.str)) =>
    ret = "false" /\ calls = <<"Errorf">>

\* C19: Panics calls f exactly once, lets no panic of f through and succeeds
\* iff f panicked; NotPanics succeeds iff f returned normally; so exactly one
\* of the two succeeds for every f.
PanicsIffPanicked ==
  /\ op \in {"Panics", "NotPanics"} => invoked = 1 /\ ret \in {"true", "false"}
  /\ op = "Panics" => (ret = "true" <=> FuncBody(actual).panics)
  /\ op = "NotPanics" => (ret = "true" <=> ~FuncBody(actual).panics)

PanicsIffPanickedWitness ==
  /\ op = "Panics"
  /\ FuncBody(actual).panics
  /\ IsNilInterface(FuncBody(actual).arg)
  /\ invoked = 1
  /\ ret = "true"

\* C20: True succeeds iff v is the bool true, and False succeeds iff True
\* fails: False succeeds for the bool false and for every value that is not
\* a bool.
TrueIffBoolTrue ==
  /\ op = "True" => (ret = "true" <=> actual = BoolV(TRUE))
  /\ op = "False" => (ret = "true" <=> actual # BoolV(TRUE))
  /\ op = "False" => (ret = "true" <=> \A r \in True(t, actual, <<>>) : r.ret = "false")

TrueIffBoolTrueWitness ==
  /\ op = "False"
  /\ actual.k # "bool"
  /\ actual.n # 0
  /\ ret = "true"
\* the values the rule of emptiness names
EmptyByRule(v) ==
  \/ v.k = "nil"
  \/ v.k = "bool" /\ v.n = 0
  \/ v.k \in {"int", "float"} /\ ~v.nan /\ v.n = 0
  \/ v.k = "string" /\ v.str = <<>>
  \/ v.k \in {"slice", "map", "chan"} /\ Len(v.es) = 0
  \/ v.t = "time.Time" /\ v.es[1].n = 0 /\ v.es[2].n = 0
  \/ v.t = "*time.Time" /\ v.n # 0 /\ v.es[1].es[1].n = 0 /\ v.es[1].es[2].n = 0
  \/ v.k = "ptr" /\ v.n = 0

DiffOnlyOfStructured ==
  ( /\ op = "diffValues"
    /\ \/ expected.k = "nil"
       \/ actual.k = "nil"
       \/ expected.t # actual.t
       \/ expected.k \notin {"struct", "map", "slice", "array"} ) =>
    out = <<>>
\* C23: diffValues called from several goroutines at once, on the same or on
\* independent pairs, returns in every call the result the same call returns
\* when it runs alone, under every interleaving.
DiffAloneOrTogether ==
  \A g \in DOMAIN routines :
    routines[g].pc = "done" => routines[g].result = diffValues(routines[g].e, routines[g].a)

\* both goroutines have returned from diffing the same pair, one of them
\* at least with a painted diff
DiffAloneOrTogetherWitness ==
  /\ DOMAIN routines = 1..NumRoutines
  /\ \A g \in 1..NumRoutines : routines[g].pc = "done"
  /\ \E g \in 1..NumRoutines : Len(routines[g].result) > 3
  /\ routines[1].e = routines[2].e
\* C24: for any reader, ReaderContains succeeds exactly if the content read
\* from the reader contains sub, and ReaderNotContains exactly if it does
\* not (a strings.Reader over "Hello, World" contains "Hello").
ReaderContainsIffContent ==
  actual.t # "*main.failing" =>
    /\ op = "ReaderContains" =>
         (ret = "true" <=> StringsContains(actual.str, expected.str))
    /\ op = "ReaderNotContains" =>
         (ret = "true" <=> ~StringsContains(actual.str, expected.str))

\* C25: after ReaderContains or ReaderNotContains has read a reader that is
\* also a writer (an in-memory buffer), what was read is written back: the
\* content is the same after the call as before, and a call that follows a
\* call of the same assertion returns the same result.
ReaderRewound ==
  [][(actual.t = "*bytes.Buffer" /\ op' \in {"ReaderContains", "ReaderNotContains"})
       => /\ actual'.str = actual.str
          /\ op = op' => ret' = ret]_vars

\* ReaderContains has failed twice in a row on a buffer that holds text
ReaderRewoundWitness ==
  /\ op = "ReaderContains"
  /\ actual = ReaderV("*bytes.Buffer", HelloWorld)
  /\ expected = StringV(Salut)
  /\ ret = "false"
  /\ Len(t.log) = 2
\* the document is an object with a member named by the whole key path, dots
\* included, and the walk of the path by segments selects a value as well
DottedBothWays(root) ==
  /\ op \in JSONOps
  /\ IndexDot(keyPath, 1) # 0
  /\ root.k = "jobject"
  /\ MemberIndex(root.es, keyPath, 1) # 0
  /\ WalkSegments(root, keyPath).found

\* C26: getJsonValue treats every full stop of the path as a separator: in a
\* document with both a top-level key named "a.b" and an object "a" with a
\* member "b", the path "a.b" selects the nested member.
DottedSelectsNested ==
  With(Root, LAMBDA root :
    DottedBothWays(root) =>
      getJsonValue(actual.str, keyPath) =
        [err |-> FALSE, data |-> WalkSegments(root, keyPath).v.str])

\* C26, amended: getJsonValue looks the whole path up as one key first: in
\* such a document the path "a.b" selects the member named "a.b", not the
\* nested one.
DottedSelectsLiteral ==
  With(Root, LAMBDA root :
    DottedBothWays(root) =>
      getJsonValue(actual.str, keyPath) =
        [err |-> FALSE, data |-> root.es[MemberIndex(root.es, keyPath, 1)].es[2].str])

\* a.b in {"a.b":1,"a":{"b":2}} is 1
DottedSelectsLiteralWitness ==
  /\ op = "NotEmptyJSON"
  /\ actual = DocDotted
  /\ keyPath = <<97, 46, 98>>
  /\ DottedBothWays(Root)
  /\ getJsonValue(actual.str, keyPath) = [err |-> FALSE, data |-> <<49>>]
  /\ ret = "true"
\* both values are slices of the same length and every pair of elements of
\* the same index is within delta
PairwiseWithin(e, a, d) ==
  /\ e.k = "slice" /\ a.k = "slice"
  /\ Len(e.es) = Len(a.es)
  /\ \A i \in 1..Len(a.es) : InDelta(t, a.es[i], e.es[i], d, <<>>) = {Pass(t)}

\* C30: InDeltaSlice never panics and succeeds iff both arguments are slices
\* of the same length whose elements are pairwise within delta; slices of
\* different lengths always fail with a report.
InDeltaSliceByLength ==
  op = "InDeltaSlice" =>
    /\ ret # "panic"
    /\ ret = "true" <=> PairwiseWithin(expected, actual, delta)
    /\ (expected.k = "slice" /\ actual.k = "slice" /\ Len(expected.es) # Len(actual.es))
         => (ret = "false" /\ calls = <<"Errorf">>)
\* C29: ContainsJSON with an expected value of a signed integer type
\* succeeds only if the raw text found at the key is a decimal integer
\* literal whose value is the expected value: a text that is no number
\* ("abc" against 0) and a number out of the range of the type (256 against
\* int8(0)) never match.
IntegerMatchesLiteral ==
  (op = "ContainsJSON" /\ expected.t \in {"int8", "int64"} /\ ret = "true") =>
    With(getJsonValue(actual.str, keyPath), LAMBDA r :
      /\ ~r.err
      /\ ~ParseInt(r.data).e
      /\ ParseInt(r.data).n = expected.n)
\* the number of segments of a path that full stops separate
RECURSIVE Segments(_)
Segments(path) ==
  IF IndexDot(path, 1) = 0 THEN 1
  ELSE 1 + Segments(SubSeq(path, IndexDot(path, 1) + 1, Len(path)))

\* C28: getJsonValue terminates for every document and path: every round of
\* its loop either leaves the loop or goes on with a strictly shorter rest of
\* the path, one segment less, so the rounds run never exceed the segments
\* of the path; what it then returns is what the model of the whole function
\* returns.
LoopWithinSegments ==
  /\ loop.rounds <= Segments(keyPath)
  /\ loop.pc = "loop" =>
       /\ loop.rounds + Segments(loop.jsonKey) = Segments(keyPath)
       /\ loop.rounds > 0 => Len(loop.jsonKey) < Len(keyPath)
  /\ loop.pc = "returned" =>
       [err |-> loop.err, data |-> loop.data] = getJsonValue(actual.str, keyPath)

\* a.1.x in {"a":[{"x":1},{"x":2}]} is found in the third round
LoopWithinSegmentsWitness ==
  /\ loop.pc = "returned"
  /\ actual = DocObjects
  /\ keyPath = <<97, 46, 49, 46, 120>>
  /\ loop.rounds = 3
  /\ loop.data = <<50>>
Assertions ==
  { "Equal", "NotEqual", "EqualValues", "Exactly", "Nil", "NotNil", "Zero", "NotZero",
    "True", "False", "Empty", "Contains", "NotContains", "Match", "Len", "IsError",
    "NotError", "EqualErrors", "Panics", "InDelta", "InDeltaSlice", "EqualJSON",
    "ContainsJSON", "NotContainsJSON", "NotEmptyJSON" }

\* C27: every assertion returns false iff it called Errorf of the sink at
\* least once during the call; a call that returns true leaves the sink
\* untouched.
FalseIffReported ==
  op \in Assertions =>
    /\ ret = "false" <=> \E i \in 1..Len(calls) : calls[i] = "Errorf"
    /\ ret = "true" => calls = <<>>

\* EqualErrors was given a value that is no error: false, one report
FalseIffReportedWitness ==
  /\ op = "EqualErrors"
  /\ IsErrorType(expected)
  /\ ~IsErrorType(actual)
  /\ ret = "false"
  /\ calls = <<"Errorf">>
====
